---- MODULE Spec2Model ----
(***************************************************************************)
(* Reality Firewall v3: the on-chain evidence ledger (ReceiptRegistry.sol) *)
(* and the policy state machine (PolicyGuard.sol), as state machines over  *)
(* the contracts' storage.  One action per external function; a call that  *)
(* reverts leaves the storage unchanged.  The transaction being executed,  *)
(* with its arguments and its outcome, is held in `last` until it returns; *)
(* transactions are executed one at a time.                                *)
(*                                                                         *)
(* Off chain: the gateway's signal providers (lib/creClient.ts), the CRE   *)
(* workflow's oracle consensus and scorer, the gateway's scorer            *)
(* (services/riskEngine.ts), canonical JSON and the evidence hash, signed  *)
(* receipts and the agent's keystore (lib/canonical.ts, index.ts), the     *)
(* narrator (callClaudeAI), the x402 payment gate (lib/x402.ts) with the   *)
(* drill routes, and the rf-clean gateway's RiskEngine.  Each has its own  *)
(* variables and its own specification over the common Init.               *)
(***************************************************************************)
EXTENDS Integers, FiniteSets, Sequences, TLC

\* ------------------------------------------------------------------ bounds
MaxTime == 2        \* block.timestamp ranges over 1..MaxTime
MaxAnchors == 2     \* the history of successful anchors per hash is cut here
MaxLtv == 1         \* initMarket draws maxLtv from 1..MaxLtv
MaxCap == 1         \* initMarket draws maxCap from 1..MaxCap

\* The accounts: address(0), the deployer of both contracts, one other account.
Addr == {0, 1, 2}
\* msg.sender of a transaction is never address(0)
Senders == Addr \ {0}
\* the account that deploys both contracts (script/Deploy.s.sol)
Deployer == 1
\* two evidence hashes and two markets
Hash == {1, 2}
Market == {1, 2}

\* uint8 values the callers submit: around the policy threshold (50) and the
\* documented ranges (score 0..100, level 0..4)
ScoreSamples == {50, 101}
LevelSamples == {4, 5}
RunIdSamples == {1}
DrillSamples == {TRUE}
\* minScore arguments of verifyReceipt
MinScoreSamples == {0, 50, 51, 101, 102}

VARIABLES
    receipts,             \* ReceiptRegistry._receipts : bytes32 => Receipt
    authorizedAgents,     \* ReceiptRegistry.authorizedAgents : address => bool
    owner,                \* ReceiptRegistry.owner
    policies,             \* PolicyGuard.policies : address => MarketPolicy
    authorizedExecutors,  \* PolicyGuard.authorizedExecutors : address => bool
    guardOwner,           \* PolicyGuard.owner
    now,                  \* block.timestamp
    last,                 \* the transaction being executed: call, arguments, outcome
    anchored,             \* history: per hash, the arguments of every successful anchor
    pc,                   \* getSignals: the await the call is at
    asset,                \* getSignals: argument asset
    drillMode,            \* getSignals: argument drillMode
    partial,              \* getSignals: const partial
    called,               \* history: the providers consulted, and whether each gave data
    clock,                \* Date.now() when the result is built
    returned,             \* the value the promise of getSignals resolves to
    nodes,                \* runRiskWorkflow: what each node of the DON read
    oracleResult,         \* runRiskWorkflow: const oracleResult
    signals,              \* computeRiskScore: argument signals
    risk,                 \* computeRiskScore: the value returned (riskEngine.ts)
    creRisk,              \* computeRisk: the value returned (cre-workflow main.ts)
    payload,              \* the value handed to a canonicaliser
    canonical,            \* the canonical text, or the error thrown
    evidence,             \* const evidenceHash: the hash taken of the canonical text
    issued,               \* buildDefenseReceipt: the receipt returned
    verdict,              \* POST /receipt/verify: the field valid of the reply
    keyFile,              \* the file at KEY_PATH
    proc,                 \* per gateway process: _privateKeyPem and the position in loadOrGenerateKey
    generated,            \* history: the keys generateKeyPairSync produced
    loaded,               \* history: the keys loadOrGenerateKey returned
    donRisk,              \* runRiskWorkflow: the signals and const riskScore
    narrator,             \* callClaudeAI: whether there is an API key, and how the call ended
    reply,                \* POST /drill: the request and the reply sent
    clean                 \* RiskEngine.computeRisk (rf-clean): the call and what it returned

registryVars == <<receipts, authorizedAgents, owner>>
guardVars == <<policies, authorizedExecutors, guardOwner>>
gatewayVars == <<pc, asset, drillMode, partial, called, clock, returned>>
engineVars == <<nodes, oracleResult, signals, risk, creRisk, payload, canonical, evidence,
                issued, verdict, keyFile, proc, generated, loaded, donRisk, narrator,
                reply, clean>>
vars == <<receipts, authorizedAgents, owner, policies, authorizedExecutors,
          guardOwner, now, last, anchored, pc, asset, drillMode, partial, called,
          clock, returned, nodes, oracleResult, signals, risk, creRisk, payload,
          canonical, evidence, issued, verdict, keyFile, proc, generated,
          loaded, donRisk, narrator, reply, clean>>

\* ------------------------------------------------------- ReceiptRegistry
\* An address no key holder controls: what ecrecover yields for a signature
\* that was made over another digest.
NoSigner == 3

\* The zero value of a storage slot of type Receipt.
EmptyReceipt ==
    [evidenceHash |-> 0, runIdHash |-> 0, agentId |-> 0, score |-> 0,
     level |-> 0, isDrill |-> FALSE, timestamp |-> 0]

Fields(evidenceHash, runIdHash, agentId, score, level, isDrill) ==
    [evidenceHash |-> evidenceHash, runIdHash |-> runIdHash, agentId |-> agentId,
     score |-> score, level |-> level, isDrill |-> isDrill]

\* No transaction is being executed.
NoCall == [op |-> "none", sender |-> 0, args |-> <<>>, err |-> "ok"]
Idle == last = NoCall

\* A call that succeeded, and one that reverted: a revert undoes every write.
Ok(op, sender, args) ==
    /\ last' = [op |-> op, sender |-> sender, args |-> args, err |-> "ok"]
    /\ UNCHANGED <<gatewayVars, engineVars>>

Revert(op, sender, args, err) ==
    /\ last' = [op |-> op, sender |-> sender, args |-> args, err |-> err]
    /\ UNCHANGED <<receipts, authorizedAgents, owner, policies,
                   authorizedExecutors, guardOwner, now, anchored, gatewayVars, engineVars>>

\* modifier onlyOwner (ReceiptRegistry)
onlyOwner(sender) == sender = owner

\* modifier onlyAuthorized
onlyAuthorized_Open(sender) == TRUE
onlyAuthorized(sender) == authorizedAgents[sender]

setAuthorizedAgent(sender, agent, status) ==
    LET args == [agent |-> agent, status |-> status] IN
    IF ~onlyOwner(sender) THEN Revert("setAuthorizedAgent", sender, args, "OnlyOwner")
    ELSE IF agent = 0 THEN Revert("setAuthorizedAgent", sender, args, "ZeroAddress")
    ELSE /\ authorizedAgents' = [authorizedAgents EXCEPT ![agent] = status]
         /\ Ok("setAuthorizedAgent", sender, args)
         /\ UNCHANGED <<receipts, owner, guardVars, now, anchored>>

\* _anchor's guard: the slot of evidenceHash has been written
ReceiptExists_Never(evidenceHash) == FALSE
ReceiptExists(evidenceHash) == receipts[evidenceHash].timestamp # 0

\* the Receipt that _anchor stores
NewReceipt_NoTimestamp(f) ==
    [evidenceHash |-> f.evidenceHash, runIdHash |-> f.runIdHash,
     agentId |-> f.agentId, score |-> f.score, level |-> f.level,
     isDrill |-> f.isDrill, timestamp |-> 0]
NewReceipt(f) ==
    [evidenceHash |-> f.evidenceHash, runIdHash |-> f.runIdHash,
     agentId |-> f.agentId, score |-> f.score, level |-> f.level,
     isDrill |-> f.isDrill, timestamp |-> now]

\* history of the successful anchors of a hash, cut at MaxAnchors
Record(h, entry) ==
    anchored' = [anchored EXCEPT ![h] =
                    IF Len(@) < MaxAnchors THEN Append(@, entry) ELSE @]

_anchor(op, sender, args) ==
    LET f == args.fields IN
    IF ReceiptExists(f.evidenceHash)
    THEN Revert(op, sender, args, "ReceiptAlreadyExists")
    ELSE /\ receipts' = [receipts EXCEPT ![f.evidenceHash] = NewReceipt(f)]
         /\ Record(f.evidenceHash, [f EXCEPT !.evidenceHash = f.evidenceHash])
         /\ Ok(op, sender, args)
         /\ UNCHANGED <<authorizedAgents, owner, guardVars, now>>

anchorReceipt(sender, evidenceHash, runIdHash, agentId, score, level, isDrill) ==
    LET args == [fields |-> Fields(evidenceHash, runIdHash, agentId, score, level, isDrill)] IN
    IF ~onlyAuthorized(sender)
    THEN Revert("anchorReceipt", sender, args, "UnauthorizedAgent")
    ELSE _anchor("anchorReceipt", sender, args)

\* RECEIPT_TYPEHASH: the type string names the six fields, in this order
RECEIPT_TYPEHASH ==
    <<"Receipt", "evidenceHash", "runIdHash", "agentId", "score", "level", "isDrill">>

\* keccak256(abi.encode(RECEIPT_TYPEHASH, ...)): abi.encode of static values is
\* injective, and keccak256 is taken to be collision free
structHash_NoDrill(f) ==
    <<RECEIPT_TYPEHASH, f.evidenceHash, f.runIdHash, f.agentId, f.score, f.level>>
structHash(f) ==
    <<RECEIPT_TYPEHASH, f.evidenceHash, f.runIdHash, f.agentId, f.score, f.level, f.isDrill>>

\* EIP712("RealityFirewall", "3.0.0")._hashTypedDataV4
_hashTypedDataV4(sh) == <<"RealityFirewall", "3.0.0", sh>>

\* What an off-chain key holder signs for the receipt f: the EIP-712 digest of
\* the typed data Receipt(f) in this contract's domain.
TypedDataDigest(f) ==
    <<"RealityFirewall", "3.0.0",
      <<RECEIPT_TYPEHASH, f.evidenceHash, f.runIdHash, f.agentId, f.score, f.level, f.isDrill>>>>

\* A well-formed signature: the key holder `signer` signed `digest`.
\* ECDSA.recover yields the signer for the digest that was signed, and an
\* address nobody controls for any other digest.
recover(hash, signature) ==
    IF signature.digest = hash THEN signature.signer ELSE NoSigner

\* the check on the recovered signer
SignerRejected_NoAgentMatch(signer, agentId) == ~authorizedAgents[signer]
SignerRejected(signer, agentId) == ~authorizedAgents[signer] \/ signer # agentId

anchorReceiptWithSignature(sender, evidenceHash, runIdHash, agentId, score, level, isDrill, signature) ==
    LET f == Fields(evidenceHash, runIdHash, agentId, score, level, isDrill)
        args == [fields |-> f, signature |-> signature]
        hash == _hashTypedDataV4(structHash(f))
        signer == recover(hash, signature)
    IN
    IF SignerRejected(signer, agentId)
    THEN Revert("anchorReceiptWithSignature", sender, args, "InvalidSignature")
    ELSE _anchor("anchorReceiptWithSignature", sender, args)

getReceipt(evidenceHash) == receipts[evidenceHash]

verifyReceipt_ScoreOnly(evidenceHash, minScore) ==
    receipts[evidenceHash].score >= minScore
verifyReceipt_AgentAuthorised(evidenceHash, minScore) ==
    LET r == receipts[evidenceHash] IN
    r.timestamp # 0 /\ r.score >= minScore /\ authorizedAgents[r.agentId]
verifyReceipt(evidenceHash, minScore) ==
    LET r == receipts[evidenceHash] IN
    r.timestamp # 0 /\ r.score >= minScore

\* The transaction returns (or its revert reaches the sender).
Return ==
    /\ ~Idle
    /\ last' = NoCall
    /\ UNCHANGED <<registryVars, guardVars, now, anchored, gatewayVars, engineVars>>

\* block.timestamp never decreases; several transactions share one block
Tick ==
    /\ Idle
    /\ now < MaxTime
    /\ now' = now + 1
    /\ UNCHANGED <<registryVars, guardVars, last, anchored, gatewayVars, engineVars>>

\* ----------------------------------------------------------- PolicyGuard
\* The zero value of a storage slot of type MarketPolicy.
EmptyPolicy ==
    [maxLtv |-> 0, minLtv |-> 0, maxCap |-> 0, isFrozen |-> FALSE, lastUpdate |-> 0]

\* modifier onlyOwner (PolicyGuard)
guardOnlyOwner(sender) == sender = guardOwner

\* modifier onlyExecutor
onlyExecutor_Open(sender) == TRUE
onlyExecutor(sender) == authorizedExecutors[sender]

setExecutor(sender, executor, status) ==
    LET args == [executor |-> executor, status |-> status] IN
    IF ~guardOnlyOwner(sender) THEN Revert("setExecutor", sender, args, "OnlyOwner")
    ELSE /\ authorizedExecutors' = [authorizedExecutors EXCEPT ![executor] = status]
         /\ Ok("setExecutor", sender, args)
         /\ UNCHANGED <<registryVars, policies, guardOwner, now, anchored>>

initMarket(sender, market, maxLtv, maxCap) ==
    LET args == [market |-> market, maxLtv |-> maxLtv, maxCap |-> maxCap] IN
    IF ~guardOnlyOwner(sender) THEN Revert("initMarket", sender, args, "OnlyOwner")
    ELSE /\ policies' = [policies EXCEPT ![market] =
                            [maxLtv |-> maxLtv, minLtv |-> 0, maxCap |-> maxCap,
                             isFrozen |-> FALSE, lastUpdate |-> now]]
         /\ Ok("initMarket", sender, args)
         /\ UNCHANGED <<registryVars, authorizedExecutors, guardOwner, now, anchored>>

\* the score threshold enforcePolicy passes to registry.verifyReceipt
MIN_SCORE == 50

\* step 1 of enforcePolicy
ReceiptValid_AnyScore(evidenceHash) == verifyReceipt(evidenceHash, 0)
ReceiptValid(evidenceHash) == verifyReceipt(evidenceHash, MIN_SCORE)

\* steps 2 and 3 of enforcePolicy
ExceedsMaxLtv_Never(newLtv, policy) == FALSE
ExceedsMaxLtv_Inclusive(newLtv, policy) == newLtv >= policy.maxLtv
ExceedsMaxLtv(newLtv, policy) == newLtv > policy.maxLtv

ExceedsMaxCap_Never(newCap, policy) == FALSE
ExceedsMaxCap_Inclusive(newCap, policy) == newCap >= policy.maxCap
ExceedsMaxCap(newCap, policy) == newCap > policy.maxCap

\* step 4 of enforcePolicy: the two fields it writes
Applied_KeepsTime(policy, freeze) == [policy EXCEPT !.isFrozen = freeze]
Applied_DropsCap(policy, freeze) ==
    [maxLtv |-> policy.maxLtv, minLtv |-> 0, maxCap |-> 0,
     isFrozen |-> freeze, lastUpdate |-> now]
Applied_FreezeSticks(policy, freeze) ==
    [policy EXCEPT !.isFrozen = @ \/ freeze, !.lastUpdate = now]
Applied(policy, freeze) == [policy EXCEPT !.isFrozen = freeze, !.lastUpdate = now]

enforcePolicy(sender, market, evidenceHash, newLtv, newCap, freeze) ==
    LET args == [market |-> market, evidenceHash |-> evidenceHash,
                 newLtv |-> newLtv, newCap |-> newCap, freeze |-> freeze]
        policy == policies[market]
    IN
    IF ~onlyExecutor(sender)
    THEN Revert("enforcePolicy", sender, args, "UnauthorizedExecutor")
    ELSE IF ~ReceiptValid(evidenceHash)
    THEN Revert("enforcePolicy", sender, args, "InvalidReceipt")
    ELSE IF ExceedsMaxLtv(newLtv, policy)
    THEN Revert("enforcePolicy", sender, args, "BlastRadiusExceeded(LTV)")
    ELSE IF ExceedsMaxCap(newCap, policy)
    THEN Revert("enforcePolicy", sender, args, "BlastRadiusExceeded(CAP)")
    ELSE /\ policies' = [policies EXCEPT ![market] = Applied(policy, freeze)]
         /\ Ok("enforcePolicy", sender, args)
         /\ UNCHANGED <<registryVars, authorizedExecutors, guardOwner, now, anchored>>

\* ------------------------------------------- gateway: lib/creClient.ts
\* JavaScript values.  Prices are counted in cents, divergencePct in units of
\* 0.0001, fundingRatePct in units of 0.000001, Date.now() in milliseconds;
\* floating-point error is left out.
Num(n) == [t |-> "number", v |-> n]
Str(s) == [t |-> "string", v |-> s]
NaN == [t |-> "NaN", v |-> 0]
Infinity == [t |-> "Infinity", v |-> 0]
undefined == [t |-> "undefined", v |-> 0]
null == [t |-> "null", v |-> 0]

\* a ?? b
Coalesce(a, b) == IF a.t \in {"undefined", "null"} THEN b ELSE a
\* Number(x) of a number or of undefined
Number(x) == IF x.t = "number" THEN x ELSE NaN
\* String(x) of a string
String(x) == IF x.t = "string" THEN x ELSE Str(x.t)
\* x ? .. : ..  for a value that is undefined or a non-empty string of digits
Truthy(x) == x.t \notin {"undefined", "null", "NaN"}

Abs(n) == IF n < 0 THEN -n ELSE n
Max(a, b) == IF a > b THEN a ELSE b
\* Math.round(n / d): the nearest integer, halves towards +Infinity
RoundDiv(n, d) ==
    IF d > 0 THEN (2 * n + d) \div (2 * d) ELSE (2 * (-n) + (-d)) \div (2 * (-d))

\* Math.abs(o - d) / o * 100 in units of 0.0001 (lines 91, 161, 217), the
\* product taken in two halves to stay within 32 bits
PercentDiff(o, d) ==
    IF o.t # "number" \/ d.t # "number" THEN NaN
    ELSE IF o.v = 0 THEN (IF d.v = 0 THEN NaN ELSE Infinity)
    ELSE LET a == Abs(o.v - d.v)
             oo == Abs(o.v)
             sgn == IF o.v > 0 THEN 1 ELSE -1
             q == (a * 1000) \div oo
             r == (a * 1000) % oo
         IN  Num(sgn * q * 1000 + RoundDiv(sgn * r * 1000, oo))

\* line 229: Math.round(Math.abs(o - d) / o * 10_000) / 10_000, in units of 0.0001
RoundedRatio(o, d) ==
    IF o.t # "number" \/ d.t # "number" THEN NaN
    ELSE IF o.v = 0 THEN (IF d.v = 0 THEN NaN ELSE Infinity)
    ELSE Num(RoundDiv(Abs(o.v - d.v) * 10000, o.v))

FeedAssets == {"WETH", "WBTC", "LINK", "USDC", "ARB"}
FEEDS ==
    [a \in FeedAssets |->
       CASE a = "WETH" -> [address |-> "0x694AA1769357215DE4FAC081bf1f309aDC325306",
                           coingeckoId |-> "ethereum", basePrice |-> 282000]
         [] a = "WBTC" -> [address |-> "0x1b44F3514812d835EB1BDB0acB33d3fA3351Ee43",
                           coingeckoId |-> "bitcoin", basePrice |-> 6200000]
         [] a = "LINK" -> [address |-> "0xc59E3633BAAC79493d908e63626716e204a45EdF",
                           coingeckoId |-> "chainlink", basePrice |-> 1420]
         [] a = "USDC" -> [address |-> "0xA2F78ab2355fe2f984D808B5CeE7FD0A93D5270E",
                           coingeckoId |-> "usd-coin", basePrice |-> 100]
         [] a = "ARB"  -> [address |-> "0x0153002d20B96532C639313c2d54c3dA09109309",
                           coingeckoId |-> "arbitrum", basePrice |-> 120]]

\* the assets fromDataStreams has a stream id for
streamIds == {"WETH", "WBTC"}

\* a Partial<OracleSignals> with no field set
NoFields ==
    [asset |-> undefined, oraclePrice |-> undefined, dexPrice |-> undefined,
     divergencePct |-> undefined, stalenessSeconds |-> undefined,
     liquidityDepthUsd |-> undefined, fundingRatePct |-> undefined,
     blockNumber |-> undefined, feedAddress |-> undefined, sourceLabel |-> undefined,
     creWorkflowId |-> undefined, creEvidenceHash |-> undefined, timestamp |-> undefined]

CRE_LABEL == "Chainlink CRE DON (BFT consensus)"
STREAMS_LABEL == "Chainlink Data Streams API"
FEEDS_LABEL == "Chainlink Data Feeds Sepolia"
DEMO_LABEL == "Demo Mode (set EVM_RPC_URL for real Chainlink data)"

\* Level 1.  env.status: "unset" (no CRE_WORKFLOW_URL), "fail" (fetch rejects or
\* times out, status not ok, body not JSON), "ok" with the JSON body env.body.
fromCREWorkflow(a, env) ==
    IF env.status = "unset" THEN null
    ELSE IF env.status = "fail" THEN null
    ELSE LET d == env.body IN
         [NoFields EXCEPT
            !.oraclePrice = Number(d.oraclePrice),
            !.dexPrice = Number(d.dexPrice),
            !.divergencePct = Number(d.divergencePct),
            !.stalenessSeconds =
                Number(Coalesce(d.staleness, Coalesce(d.stalenessSeconds, Num(15)))),
            !.liquidityDepthUsd =
                Number(Coalesce(d.liquidityUsd, Coalesce(d.liquidityDepthUsd, Num(4000000)))),
            !.feedAddress =
                String(Coalesce(d.feedAddress,
                          IF a \in FeedAssets THEN Str(FEEDS[a].address) ELSE Str(""))),
            !.creWorkflowId = String(Coalesce(d.workflowId, Str(""))),
            !.creEvidenceHash = String(Coalesce(d.evidenceHash, Str(""))),
            !.sourceLabel = Str(CRE_LABEL)]

\* Level 2.  env.status: "unset" (no API key or secret), "fail", "ok" with
\* env.report; c is Date.now().
fromDataStreams(a, env, c) ==
    IF env.status = "unset" THEN null
    ELSE IF a \notin streamIds THEN null
    ELSE IF env.status = "fail" THEN null
    ELSE LET report == env.report
             price == IF Truthy(report.benchmarkPrice) THEN report.benchmarkPrice.v
                      ELSE IF a \in FeedAssets THEN FEEDS[a].basePrice ELSE 282000
             bid == IF Truthy(report.bid) THEN report.bid.v
                    ELSE RoundDiv(price * 999, 1000)
             staleness == (c \div 1000)
                          - Number(Coalesce(report.observationsTimestamp, Num(0))).v
         IN  [NoFields EXCEPT
                !.oraclePrice = Num(price),
                !.dexPrice = Num(bid),
                !.divergencePct = PercentDiff(Num(price), Num(bid)),
                !.stalenessSeconds = Num(staleness),
                !.liquidityDepthUsd = Num(5000000),
                !.fundingRatePct = Num(0),
                !.sourceLabel = Str(STREAMS_LABEL),
                !.creEvidenceHash = Str("0x" \o "sha256(fullReport)")]

\* Level 3.  env.status: "fail" (fetch rejects, empty or short result), "ok"
\* with the decoded answer and updatedAt; env.gecko and env.block are the
\* outcomes of the two inner requests, each with its own try / catch.
fromDataFeeds(a, env, c) ==
    IF a \notin FeedAssets THEN null
    ELSE IF env.status = "fail" THEN null
    ELSE LET feed == FEEDS[a]
             price == env.answer
             updatedAt == env.updatedAt
             staleness == (c \div 1000) - updatedAt
             dexPrice == IF env.gecko.ok THEN Coalesce(env.gecko.usd, Num(price)).v
                         ELSE price
             liquidityDepthUsd ==
                 IF env.gecko.ok
                 THEN RoundDiv(Coalesce(env.gecko.usd_24h_vol, Num(30000000)).v * 12, 100)
                 ELSE 4000000
             blockNumber == IF env.block.ok THEN env.block.parsed ELSE Num(0)
         IN  [NoFields EXCEPT
                !.oraclePrice = Num(price),
                !.dexPrice = Num(dexPrice),
                !.divergencePct = PercentDiff(Num(price), Num(dexPrice)),
                !.stalenessSeconds = Num(Max(0, staleness)),
                !.liquidityDepthUsd = Num(liquidityDepthUsd),
                !.fundingRatePct = Num((updatedAt % 1000) - 500),
                !.blockNumber = blockNumber,
                !.feedAddress = Str(feed.address),
                !.sourceLabel = Str(FEEDS_LABEL)]

\* Level 4: the deterministic fallback, seeded by the time c = Date.now()
demoSignals(a, drill, c) ==
    LET feed == IF a \in FeedAssets THEN FEEDS[a] ELSE FEEDS["WETH"]
        seed == c % 9973
        base == feed.basePrice
        oracle == IF drill THEN base + 100 * ((seed % 80) - 40)
                  ELSE base + 100 * ((seed % 30) - 15)
        \* divPct in units of 0.0001
        divPct == IF drill THEN (seed % 600) + 200 ELSE seed % 50
        sign == IF seed % 2 = 0 THEN 1 ELSE -1
        \* Math.round(oracle * (1 + divPct * sign) * 100) / 100
        dex == oracle + RoundDiv(sign * oracle * divPct, 10000)
        staleness == IF drill THEN 180 + (seed % 120) ELSE 15 + (seed % 45)
        liquidity == IF drill THEN 600000 + (seed % 400000)
                     ELSE 4000000 + (seed % 3000000)
    IN  [NoFields EXCEPT
           !.asset = Str(a),
           !.oraclePrice = Num(oracle),
           !.dexPrice = Num(dex),
           !.divergencePct = Num(Abs(divPct * 100)),
           !.stalenessSeconds = Num(staleness),
           !.liquidityDepthUsd = Num(liquidity),
           !.fundingRatePct = Num(((seed % 30) - 15) * 100),
           !.blockNumber = Num(7100000 + (seed % 100000)),
           !.feedAddress = Str(feed.address),
           !.sourceLabel = Str(DEMO_LABEL),
           !.timestamp = Num(c \div 1000)]

\* lines 213-229: the merge of a provider's data with the demo values; the
\* divergencePct that line 217 sets is overwritten by line 229
Merged(a, p, demo, c) ==
    LET oraclePrice == Coalesce(p.oraclePrice, demo.oraclePrice)
        dexPrice == Coalesce(p.dexPrice, demo.dexPrice)
    IN  [asset |-> Str(a),
         oraclePrice |-> oraclePrice,
         dexPrice |-> dexPrice,
         divergencePct |-> RoundedRatio(oraclePrice, dexPrice),
         stalenessSeconds |-> Coalesce(p.stalenessSeconds, demo.stalenessSeconds),
         liquidityDepthUsd |-> Coalesce(p.liquidityDepthUsd, demo.liquidityDepthUsd),
         fundingRatePct |-> Coalesce(p.fundingRatePct, demo.fundingRatePct),
         blockNumber |-> Coalesce(p.blockNumber, demo.blockNumber),
         feedAddress |-> Coalesce(p.feedAddress, demo.feedAddress),
         sourceLabel |-> Coalesce(p.sourceLabel, demo.sourceLabel),
         creWorkflowId |-> p.creWorkflowId,
         creEvidenceHash |-> p.creEvidenceHash,
         timestamp |-> Num(c \div 1000)]

\* a ?? b ?? c: where the call goes after `provider` resolved to p
AfterProvider_NoShortCircuit(provider, p) ==
    CASE provider = "fromCREWorkflow" -> "fromDataStreams"
      [] provider = "fromDataStreams" -> "fromDataFeeds"
      [] provider = "fromDataFeeds" -> "demoSignals"
AfterProvider(provider, p) ==
    IF p # null THEN "demoSignals"
    ELSE CASE provider = "fromCREWorkflow" -> "fromDataStreams"
           [] provider = "fromDataStreams" -> "fromDataFeeds"
           [] provider = "fromDataFeeds" -> "demoSignals"

\* the provider resolved to p
Resolved(provider, p) ==
    /\ partial' = p
    /\ called' = Append(called, [provider |-> provider, gave |-> p # null])
    /\ pc' = AfterProvider(provider, p)
    /\ UNCHANGED <<asset, drillMode, clock, returned>>
    /\ UNCHANGED <<registryVars, guardVars, now, last, anchored, engineVars>>

\* getSignals(a, drill) is called
getSignals(a, drill) ==
    /\ pc = "idle"
    /\ pc' = "fromCREWorkflow"
    /\ asset' = a
    /\ drillMode' = drill
    /\ partial' = null
    /\ called' = <<>>
    /\ returned' = null
    /\ UNCHANGED clock
    /\ UNCHANGED <<registryVars, guardVars, now, last, anchored, engineVars>>

awaitCREWorkflow(env) ==
    /\ pc = "fromCREWorkflow"
    /\ Resolved("fromCREWorkflow", fromCREWorkflow(asset, env))

awaitDataStreams(env, c) ==
    /\ pc = "fromDataStreams"
    /\ Resolved("fromDataStreams", fromDataStreams(asset, env, c))

awaitDataFeeds(env, c) ==
    /\ pc = "fromDataFeeds"
    /\ Resolved("fromDataFeeds", fromDataFeeds(asset, env, c))

\* lines 208-231, at time c
buildResult(c) ==
    /\ pc = "demoSignals"
    /\ LET demo == demoSignals(asset, drillMode, c) IN
       returned' = IF partial = null THEN demo ELSE Merged(asset, partial, demo, c)
    /\ clock' = c
    /\ pc' = "done"
    /\ UNCHANGED <<asset, drillMode, partial, called>>
    /\ UNCHANGED <<registryVars, guardVars, now, last, anchored, engineVars>>

\* the caller has the result
resolve ==
    /\ pc = "done"
    /\ pc' = "idle"
    /\ partial' = null
    /\ called' = <<>>
    /\ returned' = null
    /\ UNCHANGED <<asset, drillMode, clock>>
    /\ UNCHANGED <<registryVars, guardVars, now, last, anchored, engineVars>>

\* ------------------------- CRE workflow: oracle consensus (runRiskWorkflow)
\* Prices are in cents.
MaxNodes == 5       \* the DON has 1..MaxNodes nodes

\* FALLBACK_PRICES[asset] ?? 2820
FallbackPrice(a) ==
    CASE a = "WETH" -> 282000 [] a = "WBTC" -> 6240000 [] a = "LINK" -> 1420
      [] a = "USDC" -> 100 [] OTHER -> 282000

\* the node function: the EVM read gives latestRoundData, or throws
nodeResult(a, timestamp, read) ==
    IF read.ok
    THEN [price |-> read.answer, updatedAt |-> read.updatedAt,
          staleness |-> timestamp - read.updatedAt, ok |-> TRUE]
    ELSE [price |-> FallbackPrice(a), updatedAt |-> timestamp - 30,
          staleness |-> 30, ok |-> FALSE]

\* [...results].sort((a, b) => a.price - b.price): ascending by price, stable;
\* results[i] is placed after the results that come before it in that order
sortByPrice(results) ==
    LET place == [i \in DOMAIN results |->
                    1 + Cardinality({j \in DOMAIN results :
                                       \/ results[j].price < results[i].price
                                       \/ results[j].price = results[i].price /\ j < i})]
    IN [n \in DOMAIN results |-> results[CHOOSE i \in DOMAIN results : place[i] = n]]

\* the reducer: sorted[Math.floor(sorted.length / 2)]
consensus_OfSuccesses(results) ==
    LET good == SelectSeq(results, LAMBDA r : r.ok)
        used == IF good = <<>> THEN results ELSE good
    IN sortByPrice(used)[(Len(used) \div 2) + 1]
consensus_LowerMiddle(results) == sortByPrice(results)[(Len(results) + 1) \div 2]
consensus(results) == sortByPrice(results)[(Len(results) \div 2) + 1]

\* runtime.runInNodeContext(node function, reducer) for the oracle price
oracleConsensus(a, timestamp, reads) ==
    /\ oracleResult = null
    /\ nodes' = [asset |-> a, timestamp |-> timestamp, reads |-> reads]
    /\ oracleResult' = consensus([i \in 1..Len(reads) |-> nodeResult(a, timestamp, reads[i])])
    /\ UNCHANGED <<registryVars, guardVars, now, last, anchored, gatewayVars, signals,
                   risk, creRisk, payload, canonical, evidence, issued, verdict,
                   keyFile, proc, generated, loaded, donRisk, narrator, reply, clean>>

\* the workflow run ends
workflowDone ==
    /\ oracleResult # null
    /\ nodes' = [asset |-> "WETH", timestamp |-> 0, reads |-> <<>>]
    /\ oracleResult' = null
    /\ UNCHANGED <<registryVars, guardVars, now, last, anchored, gatewayVars, signals,
                   risk, creRisk, payload, canonical, evidence, issued, verdict,
                   keyFile, proc, generated, loaded, donRisk, narrator, reply, clean>>

\* ----------------------------------------- gateway: services/riskEngine.ts
\* divergencePct and fundingRate are in units of 0.0001, prices in cents,
\* liquidity in dollars.  divergencePct may be NaN or Infinity (line 170).
Min(a, b) == IF a < b THEN a ELSE b
\* x > n, for a number x that may be NaN or Infinity
Gt(x, n) == CASE x.t = "number" -> x.v > n [] x.t = "Infinity" -> TRUE [] OTHER -> FALSE

LEVEL_LABELS == <<"SAFE", "LOW", "MEDIUM", "HIGH", "CRITICAL">>

getVulnerabilityClass(d, s, l) ==
    IF Gt(d, 100000) THEN "ORACLE_DIVERGENCE_CRITICAL"
    ELSE IF Gt(d, 30000) THEN "ORACLE_DIVERGENCE_ELEVATED"
    ELSE IF s > 3600 THEN "STALE_FEED_CRITICAL"
    ELSE IF s > 600 THEN "STALE_FEED"
    ELSE IF l < 500000 THEN "THIN_LIQUIDITY_CRITICAL"
    ELSE IF l < 2000000 THEN "THIN_LIQUIDITY"
    ELSE "NOMINAL"

\* line 124
divergenceScore_Inclusive(d) ==
    IF Gt(d, 149999) THEN 40 ELSE IF Gt(d, 99999) THEN 35 ELSE IF Gt(d, 49999) THEN 25
    ELSE IF Gt(d, 19999) THEN 15 ELSE IF Gt(d, 9999) THEN 8 ELSE 0
divergenceScore_NoLowTiers(d) ==
    IF Gt(d, 150000) THEN 40 ELSE IF Gt(d, 100000) THEN 35 ELSE IF Gt(d, 50000) THEN 25
    ELSE 0
divergenceScore(d) ==
    IF Gt(d, 150000) THEN 40 ELSE IF Gt(d, 100000) THEN 35 ELSE IF Gt(d, 50000) THEN 25
    ELSE IF Gt(d, 20000) THEN 15 ELSE IF Gt(d, 10000) THEN 8 ELSE 0
\* line 125
stalenessScore_Dip(s) ==
    IF s > 3600 THEN 30 ELSE IF s > 1800 THEN 22 ELSE IF s > 600 THEN 5
    ELSE IF s > 90 THEN 7 ELSE 0
stalenessScore(s) ==
    IF s > 3600 THEN 30 ELSE IF s > 1800 THEN 22 ELSE IF s > 600 THEN 15
    ELSE IF s > 90 THEN 7 ELSE 0
\* line 126
liquidityScore(l) ==
    IF l < 100000 THEN 20 ELSE IF l < 500000 THEN 14 ELSE IF l < 1000000 THEN 8
    ELSE IF l < 5000000 THEN 3 ELSE 0
\* line 127
fundingScore(f) ==
    IF Abs(f) > 5000 THEN 10 ELSE IF Abs(f) > 2000 THEN 6 ELSE IF Abs(f) > 1000 THEN 3
    ELSE 0
\* line 129
levelOf_Shifted(score) ==
    IF score >= 75 THEN 4 ELSE IF score >= 50 THEN 3 ELSE IF score >= 35 THEN 2
    ELSE IF score >= 15 THEN 1 ELSE 0
levelOf(score) ==
    IF score >= 75 THEN 4 ELSE IF score >= 55 THEN 3 ELSE IF score >= 35 THEN 2
    ELSE IF score >= 15 THEN 1 ELSE 0

\* Math.min(10, Math.floor(d * 2)), evaluated where d > 2
ltvAdjustment(d) == IF d.t = "Infinity" THEN 10 ELSE Min(10, (2 * d.v) \div 10000)

\* lines 130-135
actionsOf_CapBeforeLtv(d, l, level) ==
    (IF level >= 1
     THEN <<[type |-> "MONITOR_CLOSELY", severity |-> "low",
             description |-> "Increase monitoring frequency to every 30s"]>>
     ELSE <<>>)
    \o (IF l < 5000000
        THEN <<[type |-> "CAP_SUPPLY", severity |-> "medium",
                description |-> "Cap new supply to prevent liquidity drain",
                capAdjustmentPct |-> -15]>>
        ELSE <<>>)
    \o (IF Gt(d, 20000)
        THEN <<[type |-> "REDUCE_LTV", severity |-> "medium",
                description |-> "Reduce LTV by " \o ToString(ltvAdjustment(d))
                                \o "% for affected markets",
                ltvAdjustmentPct |-> -ltvAdjustment(d)]>>
        ELSE <<>>)
    \o (IF level >= 3
        THEN <<[type |-> "PAUSE_BORROWS", severity |-> "high",
                description |-> "Pause new borrow positions until oracle stabilizes"]>>
        ELSE <<>>)
    \o (IF level >= 4
        THEN <<[type |-> "FREEZE_MARKET", severity |-> "critical",
                description |-> "Emergency freeze - divergence exceeds safe threshold"]>>
        ELSE <<>>)
actionsOf(d, l, level) ==
    (IF level >= 1
     THEN <<[type |-> "MONITOR_CLOSELY", severity |-> "low",
             description |-> "Increase monitoring frequency to every 30s"]>>
     ELSE <<>>)
    \o (IF Gt(d, 20000)
        THEN <<[type |-> "REDUCE_LTV", severity |-> "medium",
                description |-> "Reduce LTV by " \o ToString(ltvAdjustment(d))
                                \o "% for affected markets",
                ltvAdjustmentPct |-> -ltvAdjustment(d)]>>
        ELSE <<>>)
    \o (IF l < 5000000
        THEN <<[type |-> "CAP_SUPPLY", severity |-> "medium",
                description |-> "Cap new supply to prevent liquidity drain",
                capAdjustmentPct |-> -15]>>
        ELSE <<>>)
    \o (IF level >= 3
        THEN <<[type |-> "PAUSE_BORROWS", severity |-> "high",
                description |-> "Pause new borrow positions until oracle stabilizes"]>>
        ELSE <<>>)
    \o (IF level >= 4
        THEN <<[type |-> "FREEZE_MARKET", severity |-> "critical",
                description |-> "Emergency freeze - divergence exceeds safe threshold"]>>
        ELSE <<>>)

computeRiskScore(sig) ==
    LET d == sig.divergencePct
        s == sig.stalenessSeconds
        l == sig.liquidityUsd
        f == sig.fundingRate
        score == Min(100, divergenceScore(d) + stalenessScore(s) + liquidityScore(l)
                          + fundingScore(f))
        level == levelOf(score)
    IN [score |-> score, level |-> level, levelLabel |-> LEVEL_LABELS[level + 1],
        vulnerabilityClass |-> getVulnerabilityClass(d, s, l),
        actions |-> actionsOf(d, l, level)]

\* ------------------------------ CRE workflow: cre-workflow/src/main.ts
vulnerabilityClass(divergence, staleness, liquidity) ==
    IF Gt(divergence, 100000) THEN "ORACLE_DIVERGENCE_CRITICAL"
    ELSE IF Gt(divergence, 30000) THEN "ORACLE_DIVERGENCE_ELEVATED"
    ELSE IF staleness > 600 THEN "STALE_FEED"
    ELSE IF liquidity < 500000 THEN "THIN_LIQUIDITY"
    ELSE "NOMINAL"

\* function levelLabel
levelLabel(level) == <<"SAFE", "LOW", "MEDIUM", "HIGH", "CRITICAL">>[level + 1]

computeRisk(sig) ==
    LET d == sig.divergencePct
        s == sig.stalenessSeconds
        l == sig.liquidityUsd
        f == sig.fundingRate
        score == Min(100, divergenceScore(d) + stalenessScore(s) + liquidityScore(l)
                          + fundingScore(f))
        level == levelOf(score)
    IN [score |-> score, level |-> level, levelLabel |-> levelLabel(level),
        vulnerabilityClass |-> vulnerabilityClass(d, s, l),
        actions |-> [i \in DOMAIN actionsOf(d, l, level) |->
                        [type |-> actionsOf(d, l, level)[i].type,
                         severity |-> actionsOf(d, l, level)[i].severity]]]

\* Number.prototype.toFixed(2) of a percentage held in units of 0.0001
toFixed2(x) ==
    IF x.t # "number" THEN x.t
    ELSE LET hundredths == (x.v + 50) \div 100
         IN ToString(hundredths \div 100) \o "."
            \o (IF hundredths % 100 < 10 THEN "0" ELSE "") \o ToString(hundredths % 100)

\* main.ts callClaudeAI: the text of the answer, or in the catch block the
\* fallback by level
workflowCallClaudeAI(sig, riskResult, n) ==
    IF n.apiKey /\ n.reply.t = "string" THEN n.reply.v
    ELSE IF riskResult.level = 0
    THEN "Oracle and DEX prices are aligned within safe tolerance bands. "
         \o "No immediate intervention required."
    ELSE IF riskResult.level <= 2
    THEN "Mild divergence of " \o toFixed2(sig.divergencePct)
         \o "% detected between Chainlink feed and DEX spot. "
         \o "Recommend monitoring and conservative LTV adjustments."
    ELSE "Critical oracle manipulation signal: " \o toFixed2(sig.divergencePct)
         \o "% price divergence with " \o ToString(sig.stalenessSeconds)
         \o "s staleness suggests active price oracle attack. "
         \o "Immediate market freeze recommended to prevent protocol insolvency."

\* steps 3 and 4 of the workflow on a signal set; one run is followed at a time
workflowScore(sig, n) ==
    /\ creRisk = null
    /\ donRisk = null
    /\ risk = null
    /\ creRisk' = [signals |-> sig, result |-> computeRisk(sig), narrator |-> n,
                   aiAnalysis |-> workflowCallClaudeAI(sig, computeRisk(sig), n)]
    /\ UNCHANGED <<signals, risk>>
    /\ UNCHANGED <<registryVars, guardVars, now, last, anchored, gatewayVars, nodes,
                   oracleResult, payload, canonical, evidence, issued, verdict, keyFile,
                   proc, generated, loaded, donRisk, narrator, reply, clean>>

\* the workflow run ends (either workflow)
workflowScored ==
    /\ creRisk # null \/ donRisk # null
    /\ creRisk' = null
    /\ donRisk' = null
    /\ UNCHANGED <<signals, risk>>
    /\ UNCHANGED <<registryVars, guardVars, now, last, anchored, gatewayVars, nodes,
                   oracleResult, payload, canonical, evidence, issued, verdict, keyFile,
                   proc, generated, loaded, narrator, reply, clean>>

\* ------------------------------------------------ canonical JSON and hashes
\* JavaScript values: the primitives above, and
Bool(b) == [t |-> "boolean", v |-> b]
Arr(items) == [t |-> "array", v |-> items]
\* an object: its own properties in insertion order, <<[k |-> key, v |-> value], ..>>
Obj(pairs) == [t |-> "object", v |-> pairs]

\* the place of every property name of the model in the order of
\* Array.prototype.sort() (by UTF-16 code unit)
KeyRank ==
    LET order ==
          <<"actions", "agentId", "agentPublicKey", "agentRegistry", "aiAnalysis",
            "asset", "createdAtIso", "description", "dexPrice", "dexSource",
            "divergencePct", "fundingRate", "isDrill", "level", "levelLabel",
            "liquidityUsd", "mode", "oraclePrice", "oracleSource", "paymentAmount",
            "paymentNetwork", "paymentTxHash", "paymentVerified", "protocolId",
            "result", "runId", "score", "severity", "signals", "signature",
            "staleness", "stalenessSeconds",
            "timestamp", "type", "version", "vulnerabilityClass", "workflowVersion">>
    IN [k \in {order[i] : i \in DOMAIN order} |->
          CHOOSE i \in DOMAIN order : order[i] = k]

\* Object.keys(obj).sort(), each key with its value; an object has a key once
sortedKeys_AsInserted(pairs) == pairs
sortedKeys(pairs) ==
    LET place == [i \in DOMAIN pairs |->
                    1 + Cardinality({j \in DOMAIN pairs :
                                       KeyRank[pairs[j].k] < KeyRank[pairs[i].k]})]
    IN [n \in DOMAIN pairs |-> pairs[CHOOSE i \in DOMAIN pairs : place[i] = n]]

\* Array.prototype.join
RECURSIVE Join(_, _)
Join(texts, sep) ==
    IF texts = <<>> THEN ""
    ELSE IF Len(texts) = 1 THEN texts[1]
    ELSE texts[1] \o sep \o Join(Tail(texts), sep)

\* JSON.stringify of a string that needs no escapes
Quote(s) == "\"" \o s \o "\""
\* JSON.stringify of a primitive; of undefined, as a template literal shows it
JSONstringify(x) ==
    CASE x.t = "number" -> ToString(x.v)
      [] x.t \in {"NaN", "Infinity", "-Infinity", "null"} -> "null"
      [] x.t = "string" -> Quote(x.v)
      [] x.t = "boolean" -> (IF x.v THEN "true" ELSE "false")
      [] x.t = "undefined" -> "undefined"

\* riskEngine.ts canonicalJson
RECURSIVE canonicalJson(_)
canonicalJson(obj) ==
    IF obj.t = "array"
    THEN "[" \o Join([i \in DOMAIN obj.v |->
                        IF obj.v[i].t = "undefined" THEN "" ELSE canonicalJson(obj.v[i])],
                     ",") \o "]"
    ELSE IF obj.t = "object"
    THEN LET sorted == sortedKeys(obj.v)
         IN "{" \o Join([i \in DOMAIN sorted |->
                           Quote(sorted[i].k) \o ":" \o canonicalJson(sorted[i].v)],
                        ",") \o "}"
    ELSE JSONstringify(obj)

\* lib/canonical.ts canonicalize: the text, or the first error thrown while the
\* parts are mapped
RECURSIVE canonicalize(_)
canonicalize(value) ==
    LET FirstError(parts) ==
          parts[CHOOSE i \in DOMAIN parts :
                  parts[i].t = "error" /\ \A j \in 1..(i - 1) : parts[j].t # "error"]
    IN
    CASE value.t \in {"null", "undefined"} -> Str("null")
      [] value.t = "boolean" -> Str(IF value.v THEN "true" ELSE "false")
      [] value.t = "string" -> Str(Quote(value.v))
      [] value.t \in {"NaN", "Infinity", "-Infinity"} ->
            [t |-> "error", v |-> "RFC 8785: non-finite number " \o value.t]
      [] value.t = "number" -> Str(ToString(value.v))
      [] value.t = "array" ->
            LET parts == [i \in DOMAIN value.v |-> canonicalize(value.v[i])]
            IN IF \E i \in DOMAIN parts : parts[i].t = "error" THEN FirstError(parts)
               ELSE Str("[" \o Join([i \in DOMAIN parts |-> parts[i].v], ",") \o "]")
      [] value.t = "object" ->
            LET kept == SelectSeq(sortedKeys(value.v), LAMBDA p : p.v.t # "undefined")
                parts == [i \in DOMAIN kept |-> canonicalize(kept[i].v)]
            IN IF \E i \in DOMAIN parts : parts[i].t = "error" THEN FirstError(parts)
               ELSE Str("{" \o Join([i \in DOMAIN parts |->
                                       Quote(kept[i].k) \o ":" \o parts[i].v], ",")
                        \o "}")

\* "0x" + SHA-256 of the text, taken to be free of collisions
sha256(text) == [t |-> "hash", v |-> text]

\* lib/canonical.ts sha256Canonical: returns the hash, or throws
sha256Canonical(value) ==
    /\ evidence.t = "null"
    /\ payload' = value
    /\ canonical' = null
    /\ evidence' = IF canonicalize(value).t = "error" THEN canonicalize(value)
                       ELSE sha256(canonicalize(value).v)
    /\ UNCHANGED <<registryVars, guardVars, now, last, anchored, gatewayVars, nodes,
                   oracleResult, signals, risk, creRisk, issued, verdict, keyFile, proc,
                   generated, loaded, donRisk, narrator, reply, clean>>

\* lib/canonical.ts hashWithPayload: returns the hash and the text, or throws
hashWithPayload(value) ==
    /\ evidence.t = "null"
    /\ payload' = value
    /\ canonical' = canonicalize(value)
    /\ evidence' = IF canonicalize(value).t = "error" THEN canonicalize(value)
                       ELSE sha256(canonicalize(value).v)
    /\ UNCHANGED <<registryVars, guardVars, now, last, anchored, gatewayVars, nodes,
                   oracleResult, signals, risk, creRisk, issued, verdict, keyFile, proc,
                   generated, loaded, donRisk, narrator, reply, clean>>

\* line 170: Math.abs((oracle.price - dex.price) / oracle.price) * 100
divergencePctOf(o, d) ==
    LET p == PercentDiff(Num(o), Num(d))
    IN IF p.t = "number" THEN Num(Abs(p.v)) ELSE p

callClaudeAI_NamesLiquidity(sig, r, n) ==
    IF n.apiKey /\ n.reply.t = "string" THEN n.reply.v
    ELSE "Liquidity: $" \o ToString(sig.liquidityUsd)
\* riskEngine.ts callClaudeAI: without an API key the fallback by level, else
\* the text of the answer, or in the catch block the fallback by score
callClaudeAI(sig, r, n) ==
    IF ~n.apiKey
    THEN IF r.level = 0
         THEN "Oracle and DEX prices are aligned within safe tolerance bands. "
              \o "No immediate intervention required."
         ELSE IF r.level <= 2
         THEN "Mild divergence of " \o toFixed2(sig.divergencePct)
              \o "% detected between Chainlink feed and DEX spot. "
              \o "Recommend monitoring and conservative LTV adjustments."
         ELSE "Critical oracle manipulation signal: " \o toFixed2(sig.divergencePct)
              \o "% price divergence with " \o ToString(sig.stalenessSeconds)
              \o "s staleness. Immediate market freeze recommended to prevent "
              \o "protocol insolvency."
    ELSE IF n.reply.t = "string" THEN n.reply.v
    ELSE "Score " \o ToString(r.score) \o "/100 [" \o r.levelLabel \o "]: "
         \o r.vulnerabilityClass \o " detected. Review recommended actions immediately."

\* riskEngine.ts buildRiskResult, up to the evidence hash: the signals read and
\* overridden by drillOverrides (lines 172-183), the score, the payload hashed
\* (lines 188-208; the numbers are kept at the resolution they are rounded to)
buildRiskResult(a, isDrill, drillOverrides, env) ==
    /\ evidence.t = "null"
    /\ risk = null
    /\ creRisk = null
    /\ donRisk = null
    /\ LET sig ==
             LET read == [asset |-> a,
                          oraclePrice |-> env.oracle.price,
                          dexPrice |-> env.dex.price,
                          divergencePct |-> divergencePctOf(env.oracle.price, env.dex.price),
                          stalenessSeconds |->
                             IF env.oracle.updatedAt > 0
                             THEN Max(0, env.now - env.oracle.updatedAt) ELSE 30,
                          liquidityUsd |-> env.dex.liquidityUsd,
                          fundingRate |-> env.fundingRate,
                          oracleSource |-> env.oracle.source,
                          dexSource |-> env.dex.source]
             IN [k \in DOMAIN read |->
                   IF k \in DOMAIN drillOverrides THEN drillOverrides[k] ELSE read[k]]
           r == computeRiskScore(sig)
           p ==
             Obj(<<[k |-> "actions",
                    v |-> Arr([i \in DOMAIN r.actions |->
                                 Obj(<<[k |-> "description", v |-> Str(r.actions[i].description)],
                                       [k |-> "severity", v |-> Str(r.actions[i].severity)],
                                       [k |-> "type", v |-> Str(r.actions[i].type)]>>)])],
                   [k |-> "aiAnalysis", v |-> Str(callClaudeAI(sig, r, env.narrator))],
                   [k |-> "asset", v |-> Str(a)],
                   [k |-> "divergencePct", v |-> sig.divergencePct],
                   [k |-> "dexPrice", v |-> Num(sig.dexPrice)],
                   [k |-> "dexSource", v |-> Str(sig.dexSource)],
                   [k |-> "fundingRate", v |-> Num(sig.fundingRate)],
                   [k |-> "isDrill", v |-> Bool(isDrill)],
                   [k |-> "level", v |-> Num(r.level)],
                   [k |-> "levelLabel", v |-> Str(r.levelLabel)],
                   [k |-> "liquidityUsd", v |-> Num(sig.liquidityUsd)],
                   [k |-> "oraclePrice", v |-> Num(sig.oraclePrice)],
                   [k |-> "oracleSource", v |-> Str(sig.oracleSource)],
                   [k |-> "runId", v |-> Str(env.runId)],
                   [k |-> "score", v |-> Num(r.score)],
                   [k |-> "stalenessSeconds", v |-> Num(sig.stalenessSeconds)],
                   [k |-> "timestamp", v |-> Num(env.timestamp)],
                   [k |-> "vulnerabilityClass", v |-> Str(r.vulnerabilityClass)],
                   [k |-> "workflowVersion", v |-> Str("3.0.0")]>>)
       IN /\ signals' = sig
          /\ narrator' = env.narrator
          /\ risk' = r
          /\ payload' = p
          /\ canonical' = Str(canonicalJson(p))
          /\ evidence' = sha256(canonical'.v)
    /\ UNCHANGED creRisk
    /\ UNCHANGED <<registryVars, guardVars, now, last, anchored, gatewayVars, nodes,
                   oracleResult, issued, verdict, keyFile, proc, generated, loaded,
                   donRisk, reply, clean>>

\* the caller has the hash, or the error
hashed ==
    /\ evidence.t # "null"
    /\ signals' = null
    /\ narrator' = null
    /\ risk' = null
    /\ payload' = undefined
    /\ canonical' = null
    /\ evidence' = null
    /\ UNCHANGED creRisk
    /\ UNCHANGED <<registryVars, guardVars, now, last, anchored, gatewayVars, nodes,
                   oracleResult, issued, verdict, keyFile, proc, generated, loaded,
                   donRisk, reply, clean>>

\* ------------------- CRE risk workflow: the score (runRiskWorkflow, step 3)
\* riskScore as lines 200-206 compute it from the divergence, the staleness
\* of the oracle consensus and the liquidity of the DEX consensus
riskScore(divergencePct, staleness, liquidityUsd) ==
    LET Ge(x, n) == CASE x.t = "number" -> x.v >= n [] x.t = "Infinity" -> TRUE
                      [] OTHER -> FALSE
        divScore == Min(IF Ge(divergencePct, 50000) THEN 40
                        ELSE IF Ge(divergencePct, 20000) THEN 25
                        ELSE IF Ge(divergencePct, 10000) THEN 15 ELSE 8, 40)
        staleScore == Min(IF staleness >= 3600 THEN 30 ELSE IF staleness >= 600 THEN 20
                          ELSE IF staleness >= 120 THEN 12 ELSE 5, 30)
        liqScore == Min(IF liquidityUsd < 100000 THEN 20
                        ELSE IF liquidityUsd < 500000 THEN 15
                        ELSE IF liquidityUsd < 1000000 THEN 10 ELSE 5, 20)
    IN Min(divScore + staleScore + liqScore, 100)

\* step 3 of runRiskWorkflow on the two consensus results
riskWorkflowScore(oracle, dex) ==
    /\ donRisk = null
    /\ creRisk = null
    /\ risk = null
    /\ LET divergencePct == divergencePctOf(oracle.price, dex.price)
       IN donRisk' = [oraclePrice |-> oracle.price, dexPrice |-> dex.price,
                      divergencePct |-> divergencePct,
                      stalenessSeconds |-> oracle.staleness,
                      liquidityUsd |-> dex.liquidityUsd,
                      riskScore |-> riskScore(divergencePct, oracle.staleness,
                                              dex.liquidityUsd)]
    /\ UNCHANGED <<registryVars, guardVars, now, last, anchored, gatewayVars, nodes,
                   oracleResult, signals, risk, creRisk, payload, canonical, evidence,
                   issued, verdict, keyFile, proc, generated, loaded, narrator, reply,
                   clean>>

\* ------------------------------------- gateway: receipts (routes/risk.ts)
\* JSON.stringify: own properties in insertion order, undefined ones left out
RECURSIVE stringify(_)
stringify(x) ==
    IF x.t = "array"
    THEN "[" \o Join([i \in DOMAIN x.v |->
                        IF x.v[i].t = "undefined" THEN "null" ELSE stringify(x.v[i])],
                     ",") \o "]"
    ELSE IF x.t = "object"
    THEN LET kept == SelectSeq(x.v, LAMBDA p : p.v.t # "undefined")
         IN "{" \o Join([i \in DOMAIN kept |->
                           Quote(kept[i].k) \o ":" \o stringify(kept[i].v)], ",") \o "}"
    ELSE JSONstringify(x)

\* JSON.parse(JSON.stringify(x)): what the client holds of a reply
RECURSIVE jsonRoundTrip(_)
jsonRoundTrip(x) ==
    IF x.t = "array"
    THEN Arr([i \in DOMAIN x.v |->
                IF x.v[i].t = "undefined" THEN null ELSE jsonRoundTrip(x.v[i])])
    ELSE IF x.t = "object"
    THEN LET kept == SelectSeq(x.v, LAMBDA p : p.v.t # "undefined")
         IN Obj([i \in DOMAIN kept |-> [k |-> kept[i].k, v |-> jsonRoundTrip(kept[i].v)]])
    ELSE IF x.t \in {"NaN", "Infinity", "-Infinity"} THEN null
    ELSE x

\* obj[k]
Get(obj, k) ==
    IF \E i \in DOMAIN obj.v : obj.v[i].k = k
    THEN obj.v[CHOOSE i \in DOMAIN obj.v : obj.v[i].k = k].v
    ELSE undefined
\* const { ...names, ...rest } = obj
RestOf(obj, names) == Obj(SelectSeq(obj.v, LAMBDA p : p.k \notin names))

\* Ed25519 keys, by number; the signature of a message is a function of the
\* key and the message, and only the key's own public key verifies it
KeyIds == {1, 2}
publicKeyHexOf(key) == "302a300506032b6570032100" \o ToString(key)

\* signPayload, with the key loadOrGenerateKey returns
signPayload(signed, key) == "ed25519(" \o ToString(key) \o "," \o stringify(signed) \o ")"
\* verifySignature
verifySignature(verified, signatureHex, publicKeyHex) ==
    \E key \in KeyIds :
        publicKeyHex = publicKeyHexOf(key) /\ signatureHex = signPayload(verified, key)

\* buildDefenseReceipt, from the unsigned receipt on (lines 139-171);
\* X402_CONFIG.network is "eip155:84532" (lib/x402.ts).  The caller says what
\* becomes of reply.
buildDefenseReceipt(params, result, agent, key, createdAtIso) ==
    /\ issued = null
    /\ LET unsigned ==
             Obj(<<[k |-> "version", v |-> Str("rf-v3")],
                   [k |-> "runId", v |-> Get(result, "runId")],
                   [k |-> "protocolId", v |-> params.protocolId],
                   [k |-> "mode", v |-> params.mode],
                   [k |-> "result", v |-> result],
                   [k |-> "paymentTxHash", v |-> params.paymentTxHash],
                   [k |-> "paymentNetwork",
                    v |-> IF params.paymentTxHash.t = "string" /\ params.paymentTxHash.v # ""
                          THEN Str("eip155:84532") ELSE undefined],
                   [k |-> "paymentVerified", v |-> params.paymentVerified],
                   [k |-> "paymentAmount", v |-> params.paymentAmount],
                   [k |-> "agentId", v |-> Str(agent.agentId)],
                   [k |-> "agentRegistry", v |-> Str(agent.agentRegistry)],
                   [k |-> "agentPublicKey", v |-> Str(publicKeyHexOf(key))],
                   [k |-> "createdAtIso", v |-> Str(createdAtIso)]>>)
       IN issued' = Obj(unsigned.v \o
                        <<[k |-> "signature", v |-> Str(signPayload(unsigned, key))]>>)
    /\ UNCHANGED verdict
    /\ UNCHANGED <<registryVars, guardVars, now, last, anchored, gatewayVars, nodes,
                   oracleResult, signals, risk, creRisk, payload, canonical, evidence,
                   keyFile, proc, generated, loaded, donRisk, narrator, clean>>

\* POST /receipt/verify with body { receipt }
receiptVerify(receipt, unmodified) ==
    /\ issued # null
    /\ verdict = null
    /\ verdict' =
          IF ~Truthy(Get(receipt, "signature")) \/ ~Truthy(Get(receipt, "agentPublicKey"))
          THEN [unmodified |-> unmodified, status |-> 400, valid |-> FALSE]
          ELSE [unmodified |-> unmodified, status |-> 200,
                valid |-> verifySignature(RestOf(receipt, {"signature", "agentPublicKey"}),
                                          Get(receipt, "signature").v,
                                          Get(receipt, "agentPublicKey").v)]
    /\ UNCHANGED issued
    /\ UNCHANGED <<registryVars, guardVars, now, last, anchored, gatewayVars, nodes,
                   oracleResult, signals, risk, creRisk, payload, canonical, evidence,
                   keyFile, proc, generated, loaded, donRisk, narrator, reply, clean>>

\* the client is done with the receipt
receiptDone ==
    /\ verdict # null
    /\ issued' = null
    /\ verdict' = null
    /\ UNCHANGED <<registryVars, guardVars, now, last, anchored, gatewayVars, nodes,
                   oracleResult, signals, risk, creRisk, payload, canonical, evidence,
                   keyFile, proc, generated, loaded, donRisk, narrator, reply, clean>>

\* --------------------------------- gateway: the keystore (anchorClient.ts)
\* the gateway processes that share KEY_PATH; keyFile is 0 while no file is there
Process == {1, 2, 3}
\* a process that has just started: let _privateKeyPem = null, _publicKeyHex = null
Fresh == [pc |-> "idle", privateKeyPem |-> 0, publicKeyHex |-> 0]

\* line 225: both are cached
loadCached(p) ==
    /\ proc[p].pc = "idle"
    /\ proc[p].privateKeyPem # 0 /\ proc[p].publicKeyHex # 0
    /\ loaded' = loaded \cup {proc[p].privateKeyPem}
    /\ UNCHANGED <<keyFile, proc, generated>>
    /\ UNCHANGED <<registryVars, guardVars, now, last, anchored, gatewayVars, nodes,
                   oracleResult, signals, risk, creRisk, payload, canonical, evidence,
                   issued, verdict, donRisk, narrator, reply, clean>>

\* line 227: existsSync(KEY_PATH)
existsSync(p) ==
    /\ proc[p].pc = "idle"
    /\ ~(proc[p].privateKeyPem # 0 /\ proc[p].publicKeyHex # 0)
    /\ proc' = [proc EXCEPT ![p].pc = IF keyFile # 0 THEN "read" ELSE "generate"]
    /\ UNCHANGED <<keyFile, generated, loaded>>
    /\ UNCHANGED <<registryVars, guardVars, now, last, anchored, gatewayVars, nodes,
                   oracleResult, signals, risk, creRisk, payload, canonical, evidence,
                   issued, verdict, donRisk, narrator, reply, clean>>

\* lines 228, 236-240: readFileSync, then the public key is derived and both returned
readFileSync(p) ==
    /\ proc[p].pc = "read"
    /\ proc' = [proc EXCEPT ![p] = [pc |-> "idle", privateKeyPem |-> keyFile,
                                    publicKeyHex |-> keyFile]]
    /\ loaded' = loaded \cup {keyFile}
    /\ UNCHANGED <<keyFile, generated>>
    /\ UNCHANGED <<registryVars, guardVars, now, last, anchored, gatewayVars, nodes,
                   oracleResult, signals, risk, creRisk, payload, canonical, evidence,
                   issued, verdict, donRisk, narrator, reply, clean>>

\* lines 230-231: generateKeyPairSync makes a key no one has made before
generateKeyPairSync(p) ==
    /\ proc[p].pc = "generate"
    /\ LET fresh == Cardinality(generated) + 1
       IN /\ generated' = generated \cup {fresh}
          /\ proc' = [proc EXCEPT ![p].pc = "write", ![p].privateKeyPem = fresh]
    /\ UNCHANGED <<keyFile, loaded>>
    /\ UNCHANGED <<registryVars, guardVars, now, last, anchored, gatewayVars, nodes,
                   oracleResult, signals, risk, creRisk, payload, canonical, evidence,
                   issued, verdict, donRisk, narrator, reply, clean>>

\* lines 232, 236-240: writeFileSync, then the public key is derived and both returned
writeFileSync(p) ==
    /\ proc[p].pc = "write"
    /\ keyFile' = proc[p].privateKeyPem
    /\ proc' = [proc EXCEPT ![p].pc = "idle", ![p].publicKeyHex = proc[p].privateKeyPem]
    /\ loaded' = loaded \cup {proc[p].privateKeyPem}
    /\ UNCHANGED generated
    /\ UNCHANGED <<registryVars, guardVars, now, last, anchored, gatewayVars, nodes,
                   oracleResult, signals, risk, creRisk, payload, canonical, evidence,
                   issued, verdict, donRisk, narrator, reply, clean>>

\* the process is restarted while no call is running: the module is loaded anew
restart(p) ==
    /\ proc[p].pc = "idle"
    /\ proc[p] # Fresh
    /\ proc' = [proc EXCEPT ![p] = Fresh]
    /\ UNCHANGED <<keyFile, generated, loaded>>
    /\ UNCHANGED <<registryVars, guardVars, now, last, anchored, gatewayVars, nodes,
                   oracleResult, signals, risk, creRisk, payload, canonical, evidence,
                   issued, verdict, donRisk, narrator, reply, clean>>


\* ------------------------------ rf-clean gateway: services/riskEngine.ts
\* JSON.stringify(value, replacer) with an array as replacer: of every object,
\* at every depth, the properties the array names, in the array's order
RECURSIVE stringifyWith(_, _)
stringifyWith(value, replacer) ==
    IF value.t = "array"
    THEN "[" \o Join([i \in DOMAIN value.v |-> stringifyWith(value.v[i], replacer)], ",")
         \o "]"
    ELSE IF value.t = "object"
    THEN LET has(k) == \E i \in DOMAIN value.v :
                          value.v[i].k = k /\ value.v[i].v.t # "undefined"
             names == SelectSeq(replacer, has)
             at(k) == value.v[CHOOSE i \in DOMAIN value.v : value.v[i].k = k].v
         IN "{" \o Join([i \in DOMAIN names |->
                           Quote(names[i]) \o ":" \o stringifyWith(at(names[i]), replacer)],
                        ",") \o "}"
    ELSE JSONstringify(value)

\* lines 58-68: JSON.stringify(receipt, Object.keys(receipt).sort()) of the
\* receipt made of these fields; signals is a record of numbers
receiptJson(sig, score, level, divergencePct, actions, timestamp) ==
    LET receipt ==
    Obj(<<[k |-> "signals",
           v |-> Obj(<<[k |-> "oraclePrice", v |-> Num(sig.oraclePrice)],
                       [k |-> "dexPrice", v |-> Num(sig.dexPrice)],
                       [k |-> "staleness", v |-> Num(sig.staleness)],
                       [k |-> "liquidityUsd", v |-> Num(sig.liquidityUsd)]>>)],
          [k |-> "score", v |-> Num(score)],
          [k |-> "level", v |-> Num(level)],
          [k |-> "divergencePct", v |-> divergencePct],
          [k |-> "actions", v |-> Arr([i \in DOMAIN actions |-> Str(actions[i])])],
          [k |-> "timestamp", v |-> Num(timestamp)]>>)
    IN stringifyWith(receipt, [i \in DOMAIN receipt.v |-> sortedKeys(receipt.v)[i].k])

\* RiskEngine.computeRisk; dateNow is what Date.now() returns, in milliseconds
RiskEngineComputeRisk(sig, dateNow) ==
    LET divergencePct == divergencePctOf(sig.oraclePrice, sig.dexPrice)
        score == (IF Gt(divergencePct, 100000) THEN 50
                  ELSE IF Gt(divergencePct, 50000) THEN 30
                  ELSE IF Gt(divergencePct, 20000) THEN 15 ELSE 0)
                 + (IF sig.staleness > 3600 THEN 30
                    ELSE IF sig.staleness > 600 THEN 15 ELSE 0)
                 + (IF sig.liquidityUsd < 100000 THEN 20
                    ELSE IF sig.liquidityUsd < 1000000 THEN 10 ELSE 0)
        level == IF score >= 80 THEN 4 ELSE IF score >= 60 THEN 3
                 ELSE IF score >= 40 THEN 2 ELSE IF score >= 20 THEN 1 ELSE 0
        actions == SubSeq(<<"MONITOR_CLOSELY", "REDUCE_LTV", "CAP_SUPPLY", "FREEZE_MARKET">>,
                          1, level)
        timestamp == dateNow \div 1000
    IN [score |-> score,
        level |-> level,
        divergencePct |-> divergencePct,
        actions |-> actions,
        evidenceHash |-> sha256(receiptJson(sig, score, level, divergencePct, actions,
                                            timestamp)),
        timestamp |-> timestamp]

\* a caller runs the engine on a signal set; it may run it again at any time
computeRiskRun(sig, dateNow) ==
    /\ clean' = [signals |-> sig, result |-> RiskEngineComputeRisk(sig, dateNow)]
    /\ UNCHANGED <<registryVars, guardVars, now, last, anchored, gatewayVars, nodes,
                   oracleResult, signals, risk, creRisk, payload, canonical, evidence,
                   issued, verdict, keyFile, proc, generated, loaded, donRisk, narrator,
                   reply>>


\* ------------------------------------- gateway: lib/x402.ts and POST /drill
\* A transaction hash as a request carries it: a string, held as the sequence
\* of its characters.  verifyPayment(txHash) under X402_DEMO_MODE and with what
\* the RPC node does: the fetch throws ("error"), or answers with a result that
\* is null or a transaction receipt.  Of a Transfer log, topics[1] and
\* topics[2] are held as the addresses that "0x" + topic.slice(26) gives, and
\* data as the number BigInt(data) gives (-1 when BigInt throws).  The
\* X402_CONFIG values are the defaults.
verifyPayment(txHash, demoMode, rpc) ==
    LET HexDigits == {"0", "1", "2", "3", "4", "5", "6", "7", "8", "9",
                      "a", "b", "c", "d", "e", "f", "A", "B", "C", "D", "E", "F"}
        isValidFormat == /\ Len(txHash) >= 2
                         /\ txHash[1] = "0" /\ txHash[2] = "x"
                         /\ Len(txHash) - 2 >= 10 /\ Len(txHash) - 2 <= 64
                         /\ \A i \in 3..Len(txHash) : txHash[i] \in HexDigits
        toLowerCase(a) ==
            IF a = "0x036CbD53842c5426634e7929541eC2318f3dCF7e"
            THEN "0x036cbd53842c5426634e7929541ec2318f3dcf7e"
            ELSE IF a = "0xDeAdBeEfDeAdBeEfDeAdBeEfDeAdBeEfDeAdBeEf"
            THEN "0xdeadbeefdeadbeefdeadbeefdeadbeefdeadbeef"
            ELSE a
        TRANSFER_TOPIC == "0xddf252ad1be2c89b69c2b068fc378daa952ba7f163c4a11628f55a4df523b3ef"
        minAmt == 1000
        Invalid(reason, mode) ==
            [valid |-> FALSE, reason |-> reason, mode |-> mode, amount |-> undefined,
             from |-> undefined]
        pays(log) ==
            /\ toLowerCase(log.address)
                  = toLowerCase("0x036CbD53842c5426634e7929541eC2318f3dCF7e")
            /\ Len(log.topics) >= 1 /\ log.topics[1] = TRANSFER_TOPIC
            /\ Len(log.topics) >= 3
            /\ toLowerCase(log.topics[3])
                  = toLowerCase("0xDeAdBeEfDeAdBeEfDeAdBeEfDeAdBeEfDeAdBeEf")
    IN
    IF demoMode
    THEN IF ~isValidFormat THEN Invalid("demo_invalid_format", "demo")
         ELSE [valid |-> TRUE, reason |-> "demo_accepted - format valid (X402_DEMO_MODE=true)",
               mode |-> "demo", amount |-> Str("1000"), from |-> Str("0xdemo_sender")]
    ELSE IF rpc.t = "error" THEN Invalid("rpc_error: " \o rpc.v, "onchain")
    ELSE IF rpc.t = "null" THEN Invalid("tx_not_found", "onchain")
    ELSE IF rpc.v.status # "0x1" THEN Invalid("tx_reverted", "onchain")
    ELSE IF \A i \in DOMAIN rpc.v.logs : ~pays(rpc.v.logs[i])
    THEN Invalid("no_usdc_transfer_to_payto", "onchain")
    ELSE LET log == rpc.v.logs[CHOOSE i \in DOMAIN rpc.v.logs :
                                 /\ pays(rpc.v.logs[i])
                                 /\ \A j \in 1..(i - 1) : ~pays(rpc.v.logs[j])]
         IN IF log.data < 0 THEN Invalid("rpc_error: SyntaxError", "onchain")
            ELSE IF log.data < minAmt
            THEN Invalid("amount_low:" \o ToString(log.data) \o "<" \o ToString(minAmt),
                         "onchain")
            ELSE [valid |-> TRUE, reason |-> "verified_onchain - USDC Transfer confirmed",
                  mode |-> "onchain", amount |-> Str(ToString(log.data)),
                  from |-> Str(log.topics[2])]

\* index.ts POST /drill: body.paymentTxHash and the two headers are undefined
\* or strings; result, key and createdAtIso are what buildDefenseReceipt
\* computes and reads on the way
postDrill(body, xPaymentTx, xPayment, demoMode, rpc, result, key, createdAtIso) ==
    LET paymentTx == Coalesce(Coalesce(body.paymentTxHash, xPaymentTx), xPayment)
        request == [gateway |-> "gateway", paymentTx |-> paymentTx]
    IN
    IF paymentTx.t = "undefined" \/ paymentTx.v = <<>>
    THEN /\ reply' = [request |-> request, verification |-> null, status |-> 402,
                      error |-> "Payment Required", paymentVerified |-> FALSE]
         /\ UNCHANGED <<registryVars, guardVars, now, last, anchored, gatewayVars, nodes,
                        oracleResult, signals, risk, creRisk, payload, canonical,
                        evidence, issued, verdict, keyFile, proc, generated, loaded,
                        donRisk, narrator, clean>>
    ELSE LET verification == verifyPayment(paymentTx.v, demoMode, rpc)
         IN IF ~verification.valid
            THEN /\ reply' = [request |-> request, verification |-> verification,
                              status |-> 402, error |-> "Payment verification failed",
                              paymentVerified |-> FALSE]
                 /\ UNCHANGED <<registryVars, guardVars, now, last, anchored, gatewayVars,
                                nodes, oracleResult, signals, risk, creRisk, payload,
                                canonical, evidence, issued, verdict, keyFile, proc,
                                generated, loaded, donRisk, narrator, clean>>
            ELSE /\ buildDefenseReceipt(
                       [mode |-> Str("drill"),
                        protocolId |-> Coalesce(body.protocolId, Str("demo-protocol")),
                        paymentTxHash |-> Str(Join(paymentTx.v, "")),
                        paymentVerified |-> Bool(TRUE),
                        paymentAmount |-> verification.amount],
                       result,
                       [agentId |-> "rf-agent-demo",
                        agentRegistry |-> "eip155:11155111:0x8004"],
                       key, createdAtIso)
                 /\ reply' = [request |-> request, verification |-> verification,
                              status |-> 200, error |-> "", paymentVerified |-> TRUE]

\* rf-clean routes/risk.ts POST /drill
cleanDrill(paymentTx, dateNow) ==
    LET request == [gateway |-> "rf-clean", paymentTx |-> paymentTx]
    IN
    /\ IF paymentTx.t = "undefined" \/ paymentTx.v = <<>>
       THEN /\ reply' = [request |-> request, verification |-> null, status |-> 402,
                         error |-> "Payment Required", paymentVerified |-> FALSE]
            /\ UNCHANGED clean
       ELSE /\ reply' = [request |-> request, verification |-> null, status |-> 200,
                         error |-> "", paymentVerified |-> TRUE]
            /\ clean' = [signals |-> [oraclePrice |-> 250000, dexPrice |-> 235000,
                                      staleness |-> 120, liquidityUsd |-> 800000],
                         result |-> RiskEngineComputeRisk(
                                       [oraclePrice |-> 250000, dexPrice |-> 235000,
                                        staleness |-> 120, liquidityUsd |-> 800000],
                                       dateNow)]
    /\ UNCHANGED <<registryVars, guardVars, now, last, anchored, gatewayVars, nodes,
                   oracleResult, signals, risk, creRisk, payload, canonical, evidence,
                   issued, verdict, keyFile, proc, generated, loaded, donRisk, narrator>>

\* ------------------------------------------------------------ the system
Init ==
    /\ receipts = [h \in Hash |-> EmptyReceipt]
    /\ owner = Deployer
    /\ authorizedAgents = [a \in Addr \cup {NoSigner} |-> a = Deployer]
    /\ guardOwner = Deployer
    /\ authorizedExecutors = [a \in Addr |-> a = Deployer]
    /\ policies = [m \in Market |-> EmptyPolicy]
    /\ now = 1
    /\ last = NoCall
    /\ anchored = [h \in Hash |-> <<>>]
    /\ pc = "idle"
    /\ asset = "WETH"
    /\ drillMode = FALSE
    /\ partial = null
    /\ called = <<>>
    /\ clock = 0
    /\ returned = null
    /\ nodes = [asset |-> "WETH", timestamp |-> 0, reads |-> <<>>]
    /\ oracleResult = null
    /\ signals = null
    /\ risk = null
    /\ creRisk = null
    /\ payload = undefined
    /\ canonical = null
    /\ evidence = null
    /\ issued = null
    /\ verdict = null
    /\ keyFile = 0
    /\ proc = [p \in Process |-> Fresh]
    /\ generated = {}
    /\ loaded = {}
    /\ donRisk = null
    /\ narrator = null
    /\ reply = null
    /\ clean = null

Next ==
    \/ \E sender \in Senders, agent \in Addr, status \in BOOLEAN :
          Idle /\ setAuthorizedAgent(sender, agent, status)
    \/ \E sender \in Senders, h \in Hash, r \in RunIdSamples, a \in Addr,
          s \in ScoreSamples, l \in LevelSamples, d \in DrillSamples :
          Idle /\ anchorReceipt(sender, h, r, a, s, l, d)
    \/ Return
    \/ Tick

Spec == Init /\ [][Next]_vars

\* PolicyGuard over a ledger that holds at most one receipt, anchored by the
\* deployer with a score on either side of the threshold.
GuardHashes == {1}
GuardScores == {MIN_SCORE - 1, MIN_SCORE}

NextGuard ==
    \/ \E h \in GuardHashes, s \in GuardScores :
          Idle /\ anchorReceipt(Deployer, h, 1, Deployer, s, 4, TRUE)
    \/ \E sender \in Senders, executor \in Senders, status \in BOOLEAN :
          Idle /\ setExecutor(sender, executor, status)
    \/ \E sender \in Senders, market \in Market, maxLtv \in 1..MaxLtv, maxCap \in 1..MaxCap :
          Idle /\ initMarket(sender, market, maxLtv, maxCap)
    \/ \E sender \in Senders, market \in Market, h \in GuardHashes,
          newLtv \in 0..(MaxLtv + 1), newCap \in 0..(MaxCap + 1), freeze \in BOOLEAN :
          Idle /\ enforcePolicy(sender, market, h, newLtv, newCap, freeze)
    \/ Return
    \/ Tick

SpecGuard == Init /\ [][NextGuard]_vars

\* The two anchoring entry points of the ledger, interleaved.  A caller
\* presents a signature that some key holder made over the submitted receipt,
\* or over a receipt that differs from it in one field.
SigScores == {50}
SigLevels == {4}

Altered(f) ==
    { [f EXCEPT !.evidenceHash = 3 - @], [f EXCEPT !.runIdHash = @ + 1],
      [f EXCEPT !.agentId = (@ + 1) % 3], [f EXCEPT !.score = @ + 1],
      [f EXCEPT !.level = @ + 1], [f EXCEPT !.isDrill = ~@] }

Signatures(f) ==
    { [signer |-> k, digest |-> TypedDataDigest(g)] :
        k \in Senders, g \in {f} \cup Altered(f) }

NextSig ==
    \/ \E sender \in Senders, agent \in Addr, status \in BOOLEAN :
          Idle /\ setAuthorizedAgent(sender, agent, status)
    \/ \E sender \in Senders, h \in Hash, a \in Addr, s \in SigScores, l \in SigLevels :
          Idle /\ anchorReceipt(sender, h, 1, a, s, l, TRUE)
    \/ \E sender \in Senders, h \in Hash, a \in Addr, s \in SigScores, l \in SigLevels :
          \E sig \in Signatures(Fields(h, 1, a, s, l, TRUE)) :
             Idle /\ anchorReceiptWithSignature(sender, h, 1, a, s, l, TRUE, sig)
    \/ Return
    \/ Tick

SpecSig == Init /\ [][NextSig]_vars

\* getSignals against every combination of provider outcomes.
Assets == {"WETH", "USDC", "DOGE"}
\* Date.now(): seeds 14 (even), 45 (odd), 270
Clocks == {14, 45, 100000}

CreBodies ==
    { [oraclePrice |-> o, dexPrice |-> d, divergencePct |-> v, staleness |-> s,
       stalenessSeconds |-> undefined, liquidityUsd |-> undefined,
       liquidityDepthUsd |-> undefined, feedAddress |-> undefined,
       workflowId |-> undefined, evidenceHash |-> undefined] :
        o \in {undefined, Num(278000)}, d \in {undefined, Num(250200)},
        v \in {undefined, Num(50000)}, s \in {undefined, Num(650)} }
CreOutcomes ==
    { [status |-> st, body |-> CHOOSE b \in CreBodies : b.oraclePrice = undefined
                                  /\ b.dexPrice = undefined /\ b.divergencePct = undefined
                                  /\ b.staleness = undefined] : st \in {"unset", "fail"} }
    \cup { [status |-> "ok", body |-> b] : b \in CreBodies }

StreamReports ==
    { [benchmarkPrice |-> b, bid |-> k, observationsTimestamp |-> t] :
        b \in {undefined, Num(278000)}, k \in {undefined, Num(250200)},
        t \in {undefined, Num(10)} }
StreamOutcomes ==
    { [status |-> st, report |-> [benchmarkPrice |-> undefined, bid |-> undefined,
                                  observationsTimestamp |-> undefined]] :
        st \in {"unset", "fail"} }
    \cup { [status |-> "ok", report |-> r] : r \in StreamReports }

GeckoOutcomes ==
    { [ok |-> FALSE, usd |-> undefined, usd_24h_vol |-> undefined],
      [ok |-> TRUE, usd |-> undefined, usd_24h_vol |-> undefined],
      [ok |-> TRUE, usd |-> Num(250200), usd_24h_vol |-> Num(4000000)] }
BlockOutcomes ==
    { [ok |-> FALSE, parsed |-> Num(0)], [ok |-> TRUE, parsed |-> Num(7100123)],
      [ok |-> TRUE, parsed |-> NaN] }
FeedOutcomes ==
    { [status |-> "fail", answer |-> 0, updatedAt |-> 0,
       gecko |-> [ok |-> FALSE, usd |-> undefined, usd_24h_vol |-> undefined],
       block |-> [ok |-> FALSE, parsed |-> Num(0)]] }
    \cup { [status |-> "ok", answer |-> 278000, updatedAt |-> u, gecko |-> g, block |-> b] :
             u \in {10, 200}, g \in GeckoOutcomes, b \in BlockOutcomes }

NextSignals ==
    \/ \E a \in Assets, drill \in BOOLEAN : getSignals(a, drill)
    \/ \E env \in CreOutcomes : awaitCREWorkflow(env)
    \/ \E env \in StreamOutcomes, c \in Clocks : awaitDataStreams(env, c)
    \/ \E env \in FeedOutcomes, c \in Clocks : awaitDataFeeds(env, c)
    \/ \E c \in Clocks : buildResult(c)
    \/ resolve

SpecSignals == Init /\ [][NextSignals]_vars

\* The oracle consensus of the workflow: every node reads one of three prices,
\* or fails.
RECURSIVE SeqsUpTo(_, _)
SeqsUpTo(S, n) ==
    IF n = 0 THEN {<<>>}
    ELSE LET shorter == SeqsUpTo(S, n - 1)
         IN shorter \cup {Append(q, x) : q \in {q \in shorter : Len(q) = n - 1}, x \in S}

NextConsensus ==
    \/ \E a \in {"WETH", "USDC"},
          reads \in SeqsUpTo({[ok |-> FALSE, answer |-> 0, updatedAt |-> 0]}
                            \cup {[ok |-> TRUE, answer |-> p, updatedAt |-> 940] :
                                    p \in {270000, 275000, 282000}},
                            MaxNodes) \ {<<>>} :
          oracleConsensus(a, 1000, reads)
    \/ workflowDone

SpecConsensus == Init /\ [][NextConsensus]_vars

\* The scorer: buildRiskResult on the prices read, and in a drill with every
\* combination of overrides on either side of each threshold; the workflow's
\* computeRisk on signal sets around the class boundaries.
DivergenceSamples ==
    {Num(v) : v \in {10000, 10001, 20000, 20001, 25000, 30000, 30001, 50000, 50001,
                     100000, 100001, 150000, 150001}} \cup {NaN, Infinity}
StalenessSamples == {90, 91, 600, 601, 1800, 1801, 3600, 3601}
LiquiditySamples ==
    {99999, 100000, 499999, 500000, 999999, 1000000, 1999999, 2000000, 4999999, 5000000}
DrillOverrides ==
    [divergencePct : DivergenceSamples, stalenessSeconds : StalenessSamples,
     liquidityUsd : LiquiditySamples, fundingRate : {-5001, 1000, 1001, 2000, 2001, 5000, 5001}]

\* what the gateway reads: the oracle's price (zero from an empty feed), the
\* DEX's price, the funding rate
Envs ==
    [oracle : {[price |-> p, updatedAt |-> 350, source |-> "chainlink-sepolia"] :
                 p \in {278000, 0}},
     dex : {[price |-> p, liquidityUsd |-> 480000, source |-> "coingecko"] :
              p \in {250200, 278000}},
     fundingRate : {0, 1000},
     narrator : {[apiKey |-> FALSE, reply |-> undefined],
                 [apiKey |-> TRUE, reply |-> [t |-> "error", v |-> "529 overloaded"]],
                 [apiKey |-> TRUE, reply |-> Str("Review recommended actions.")]},
     runId : {"rfw_1000000_abc123"},
     timestamp : {1000},
     now : {1000}]

NextScore ==
    \/ \E isDrill \in BOOLEAN, env \in Envs : buildRiskResult("WETH", isDrill, <<>>, env)
    \/ \E o \in [divergencePct : {Num(0), Num(25000), Num(150001)},
                 stalenessSeconds : {90, 3600, 3601},
                 liquidityUsd : {99999, 5000000}, fundingRate : {1000}],
          env \in Envs :
          /\ env.oracle.price = 278000 /\ env.dex.price = 278000
          /\ ~(env.narrator.apiKey /\ env.narrator.reply.t = "string")
          /\ buildRiskResult("WETH", TRUE, o, env)
    \/ \E o \in DrillOverrides :
          buildRiskResult("WETH", TRUE, o,
                          CHOOSE env \in Envs : /\ env.oracle.price = 278000
                                                /\ env.dex.price = 278000
                                                /\ env.fundingRate = 0
                                                /\ env.narrator.apiKey
                                                /\ env.narrator.reply.t = "string")
    \/ hashed
    \/ \E sig \in [asset : {"WETH"}, oraclePrice : {278000}, dexPrice : {278000},
                   divergencePct : {Num(0), Num(30001), Num(100001)},
                   stalenessSeconds : {0, 601, 3601},
                   liquidityUsd : {499999, 1999999, 2000000},
                   fundingRate : {0},
                   oracleSource : {"chainlink-data-feed"}, dexSource : {"coingecko"}] :
          \E env \in Envs : workflowScore(sig, env.narrator)
    \/ \E oracle \in [price : {278000}, staleness : {0, 601, 3601}],
          dex \in [price : {278000, 250200}, liquidityUsd : {499999, 2000000, 5000000}] :
          riskWorkflowScore(oracle, dex)
    \/ workflowScored

SpecScore == Init /\ [][NextScore]_vars

\* The canonicaliser and the hashes: objects of depth two with their keys in
\* every insertion order, values absent, null, finite and not; buildRiskResult
\* on prices that are zero or not.
CanonicalSamples ==
    LET ObjectsOver(keys, values) ==
          {Obj(q) : q \in {q \in SeqsUpTo([k : keys, v : values], Cardinality(keys)) :
                             \A i, j \in DOMAIN q : i # j => q[i].k # q[j].k}}
        inner == ObjectsOver({"level", "score"}, {Num(64), null, undefined, NaN})
    IN ObjectsOver({"asset", "result"},
                   {Str("WETH"), undefined, Infinity, Arr(<<Num(1), undefined>>)}
                   \cup inner)
       \cup {null, undefined, Num(7), [t |-> "-Infinity", v |-> 0], Bool(TRUE),
             Arr(<<NaN>>)}

NextCanonical ==
    \/ \E value \in CanonicalSamples : sha256Canonical(value)
    \/ \E value \in CanonicalSamples : hashWithPayload(value)
    \/ \E env \in Envs : buildRiskResult("WETH", FALSE, <<>>, env)
    \/ hashed

SpecCanonical == Init /\ [][NextCanonical]_vars

\* Receipts: every combination of request parameters, two results, two keys;
\* the client sends the receipt back as it got it, or without its signature.
NextReceipt ==
    \/ \E params \in [mode : {Str("check"), Str("drill")},
                      protocolId : {Str("demo-protocol"), Str("aave-v3")},
                      paymentTxHash : {undefined, Str("0xabc")},
                      paymentVerified : {Bool(FALSE), Bool(TRUE)},
                      paymentAmount : {undefined, Str("0.01")}],
          s \in {54, 100}, key \in KeyIds :
          /\ buildDefenseReceipt(params,
                                 Obj(<<[k |-> "runId", v |-> Str("rfw_1000000_abc123")],
                                       [k |-> "score", v |-> Num(s)],
                                       [k |-> "level", v |-> Num(levelOf(s))],
                                       [k |-> "aiAnalysis", v |-> undefined]>>),
                                 [agentId |-> "rf-agent-demo",
                                  agentRegistry |-> "eip155:11155111:0x8004"],
                                 key, "2026-01-01T00:00:00.000Z")
          /\ UNCHANGED reply
    \/ receiptVerify(jsonRoundTrip(issued), TRUE)
    \/ receiptVerify(RestOf(jsonRoundTrip(issued), {"signature"}), FALSE)
    \/ receiptDone

SpecReceipt == Init /\ [][NextReceipt]_vars

\* The keystore: the gateway processes that share KEY_PATH, each in
\* loadOrGenerateKey or between two calls, restarted at will.
NextKeystore ==
    \/ \E p \in Process : loadCached(p)
    \/ \E p \in Process : existsSync(p)
    \/ \E p \in Process : readFileSync(p)
    \/ \E p \in Process : generateKeyPairSync(p)
    \/ \E p \in Process : writeFileSync(p)
    \/ \E p \in Process : restart(p)

SpecKeystore == Init /\ [][NextKeystore]_vars


\* The drill routes and the rf-clean engine.  Payment references: none, the
\* empty string, "0x" and ten or sixty-four hex digits, nine hex digits, a
\* digit that is not hex.  RPC answers: the fetch throws, no such transaction,
\* a reverted one, and receipts whose logs pay enough, too little, someone
\* else, or carry no number.
NextDrill ==
    LET Tx(n, c) == Str(<<"0", "x">> \o [i \in 1..n |-> c])
        usdc == "0x036cbd53842c5426634e7929541ec2318f3dcf7e"
        topic == "0xddf252ad1be2c89b69c2b068fc378daa952ba7f163c4a11628f55a4df523b3ef"
        Transfer(to, amount) ==
            [address |-> usdc, topics |-> <<topic, "0xa11ce", to>>, data |-> amount]
        payTo == "0xdeadbeefdeadbeefdeadbeefdeadbeefdeadbeef"
        Receipt(status, logs) == [t |-> "receipt", v |-> [status |-> status, logs |-> logs]]
        Rpc == {[t |-> "error", v |-> "TypeError: fetch failed"], null,
                Receipt("0x0", <<Transfer(payTo, 1000)>>),
                Receipt("0x1", <<>>),
                Receipt("0x1", <<Transfer(payTo, 1000)>>),
                Receipt("0x1", <<Transfer(payTo, 999), Transfer(payTo, 1000)>>),
                Receipt("0x1", <<Transfer("0xb0b", 5000), Transfer(payTo, 2000)>>),
                Receipt("0x1", <<[address |-> "0x036CbD53842c5426634e7929541eC2318f3dCF7e",
                                  topics |-> <<topic>>, data |-> 1000]>>),
                Receipt("0x1", <<Transfer(payTo, -1)>>)}
    IN
    \/ \E body \in [paymentTxHash : {undefined, Str(<<>>), Tx(10, "a"), Tx(10, "g")},
                    protocolId : {undefined}],
          xPaymentTx \in {undefined, Tx(9, "F")}, xPayment \in {undefined, Tx(64, "0")},
          demoMode \in BOOLEAN, rpc \in Rpc, s \in {54}, key \in {1} :
          postDrill(body, xPaymentTx, xPayment, demoMode, rpc,
                    Obj(<<[k |-> "runId", v |-> Str("rfw_1000000_abc123")],
                          [k |-> "score", v |-> Num(s)],
                          [k |-> "level", v |-> Num(levelOf(s))],
                          [k |-> "aiAnalysis", v |-> undefined]>>),
                    key, "2026-01-01T00:00:00.000Z")
    \/ \E paymentTx \in {undefined, Str(<<>>), Str(<<"p", "a", "i", "d">>), Tx(10, "a")},
          dateNow \in {1000000, 1001000} :
          cleanDrill(paymentTx, dateNow)
    \/ \E sig \in [oraclePrice : {0, 250000}, dexPrice : {235000},
                   staleness : {120}, liquidityUsd : {5000000, 6000000}],
          dateNow \in {1000000, 1000999, 1001000} :
          computeRiskRun(sig, dateNow)

SpecDrill == Init /\ [][NextDrill]_vars

\* ---------------------------------------------------------------- claims
\* A step that executes a call.
CallStep == Idle /\ last' # NoCall
AnchorOps == {"anchorReceipt", "anchorReceiptWithSignature"}
Storage == <<receipts, authorizedAgents, owner, policies, authorizedExecutors, guardOwner>>

\* the hash has been anchored by an earlier successful call
WasAnchored(h) == h \in Hash /\ Len(anchored[h]) > 0
\* the signature was made by the claimed agent over exactly the submitted fields
SignatureCovers(a) ==
    /\ a.signature.digest = TypedDataDigest(a.fields)
    /\ a.signature.signer = a.fields.agentId

ReceiptQualifies(h) == WasAnchored(h) /\ anchored[h][1].score >= 50

\* C2: a successful enforcePolicy has newLtv <= maxLtv and newCap <= maxCap of
\* the market at the time of the call; from an executor with a valid receipt,
\* newLtv above the bound is rejected with BlastRadiusExceeded("LTV"), newCap
\* above the bound (newLtv within it) with BlastRadiusExceeded("CAP"), and the
\* policy is unchanged.
C2_BlastRadiusBounds ==
    [][ (CallStep /\ last'.op = "enforcePolicy") =>
          LET a == last'.args
              p == policies[a.market]
              admitted == authorizedExecutors[last'.sender] /\ ReceiptQualifies(a.evidenceHash)
          IN  /\ last'.err = "ok" => (a.newLtv <= p.maxLtv /\ a.newCap <= p.maxCap)
              /\ (admitted /\ a.newLtv > p.maxLtv) =>
                     (last'.err = "BlastRadiusExceeded(LTV)" /\ policies' = policies)
              /\ (admitted /\ a.newLtv <= p.maxLtv /\ a.newCap > p.maxCap) =>
                     (last'.err = "BlastRadiusExceeded(CAP)" /\ policies' = policies)
      ]_vars

C2_Witness ==
    /\ last.op = "enforcePolicy"
    /\ last.err = "BlastRadiusExceeded(CAP)"
    /\ policies[last.args.market].maxCap > 0
    /\ last.args.newLtv = policies[last.args.market].maxLtv

\* C3: a successful enforcePolicy names a hash that is anchored with score >= 50
\* at the time of the call; an executor's call naming a hash that is not
\* anchored, or anchored with a lower score, is rejected with InvalidReceipt and
\* changes nothing, whatever the other arguments (none of them is a threshold).
C3_ReceiptThreshold ==
    [][ (CallStep /\ last'.op = "enforcePolicy") =>
          LET a == last'.args IN
          /\ last'.err = "ok" => ReceiptQualifies(a.evidenceHash)
          /\ (authorizedExecutors[last'.sender] /\ ~ReceiptQualifies(a.evidenceHash)) =>
                 (last'.err = "InvalidReceipt" /\ Storage' = Storage)
      ]_vars

\* a receipt that exists with a score below the threshold is refused
C3_Witness ==
    /\ last.op = "enforcePolicy"
    /\ last.err = "InvalidReceipt"
    /\ WasAnchored(last.args.evidenceHash)
    /\ anchored[last.args.evidenceHash][1].score = 49

\* C4: anchorReceipt stores an entry only when its caller is in the
\* authorised-agent list at the time of the call; any other caller is rejected
\* with UnauthorizedAgent and nothing is stored; the list changes only through
\* setAuthorizedAgent called by the owner.
C4_OnlyAuthorizedAnchors ==
    [][ CallStep =>
          /\ last'.op = "anchorReceipt" =>
               /\ last'.err = "ok" => authorizedAgents[last'.sender]
               /\ ~authorizedAgents[last'.sender] =>
                    (last'.err = "UnauthorizedAgent" /\ receipts' = receipts
                     /\ anchored' = anchored)
          /\ authorizedAgents' # authorizedAgents =>
               (last'.op = "setAuthorizedAgent" /\ last'.sender = owner /\ last'.err = "ok")
      ]_vars

\* the deployer, authorised at construction and since removed, is turned away
C4_Witness ==
    /\ last.op = "anchorReceipt"
    /\ last.err = "UnauthorizedAgent"
    /\ last.sender = Deployer
    /\ \E a \in Senders : authorizedAgents[a]

\* C5: every stored entry has score in 0..100, level in 0..4 and a non-zero
\* agentId.
C5_EntriesInRange ==
    \A h \in Hash :
       receipts[h].timestamp # 0 =>
          /\ receipts[h].score \in 0..100
          /\ receipts[h].level \in 0..4
          /\ receipts[h].agentId # 0

\* C6: verifyReceipt(h, m) is true exactly when h has been anchored and the
\* anchored entry's score is at least m; false for every m when h never was.
C6_VerifyReceiptIff ==
    \A h \in Hash, m \in MinScoreSamples :
       verifyReceipt(h, m) <=> (WasAnchored(h) /\ anchored[h][1].score >= m)

C6_Witness ==
    \E h, g \in Hash :
       /\ WasAnchored(h) /\ anchored[h][1].score = 50
       /\ verifyReceipt(h, 50) /\ ~verifyReceipt(h, 51)
       /\ ~WasAnchored(g) /\ ~verifyReceipt(g, 0)

\* C7 as stated: an executor's enforcePolicy with newLtv > maxLtv fails with
\* BlastRadiusExceeded("LTV") whatever the status of the receipt.
C7_LtvErrorWhateverReceipt ==
    (/\ last.op = "enforcePolicy"
     /\ authorizedExecutors[last.sender]
     /\ last.args.newLtv > policies[last.args.market].maxLtv)
    => last.err = "BlastRadiusExceeded(LTV)"

\* C7 amended: an executor's enforcePolicy with newLtv > maxLtv always fails and
\* leaves the policy unchanged; the error is BlastRadiusExceeded("LTV") when the
\* receipt is valid and InvalidReceipt when it is not anchored or scores < 50.
C7_LtvAboveBoundFails ==
    [][ (/\ CallStep
         /\ last'.op = "enforcePolicy"
         /\ authorizedExecutors[last'.sender]
         /\ last'.args.newLtv > policies[last'.args.market].maxLtv)
        => /\ policies' = policies
           /\ last'.err = IF ReceiptQualifies(last'.args.evidenceHash)
                          THEN "BlastRadiusExceeded(LTV)" ELSE "InvalidReceipt"
      ]_vars

C7_Witness ==
    /\ last.op = "enforcePolicy"
    /\ last.err = "InvalidReceipt"
    /\ WasAnchored(last.args.evidenceHash)
    /\ policies[last.args.market].maxLtv > 0
    /\ last.args.newLtv > policies[last.args.market].maxLtv

C9_RolesGateGuard ==
    [][ CallStep =>
          /\ (last'.op = "enforcePolicy" /\ ~authorizedExecutors[last'.sender]) =>
                (last'.err = "UnauthorizedExecutor" /\ Storage' = Storage)
          /\ (last'.op \in {"initMarket", "setExecutor"} /\ last'.sender # guardOwner) =>
                (last'.err = "OnlyOwner" /\ Storage' = Storage)
          /\ (last'.op = "setExecutor" /\ last'.err = "ok" /\ ~last'.args.status) =>
                ~authorizedExecutors'[last'.args.executor]
          /\ policies' # policies =>
                \/ last'.op = "initMarket" /\ last'.sender = guardOwner
                \/ last'.op = "enforcePolicy" /\ authorizedExecutors[last'.sender]
          /\ authorizedExecutors' # authorizedExecutors =>
                (last'.op = "setExecutor" /\ last'.sender = guardOwner)
          /\ guardOwner' = guardOwner
      ]_vars

\* the deployer, an executor at construction and since removed, is turned away
\* although the receipt it names is valid
C9_Witness ==
    /\ last.op = "enforcePolicy"
    /\ last.err = "UnauthorizedExecutor"
    /\ last.sender = Deployer
    /\ ReceiptQualifies(last.args.evidenceHash)

C11_EntriesPermanent ==
    [][ /\ \A h \in Hash :
             getReceipt(h).timestamp # 0 => receipts'[h] = getReceipt(h)
        /\ (CallStep /\ last'.op \in AnchorOps /\ last'.err = "ok") =>
             LET f == last'.args.fields IN
             /\ receipts'[f.evidenceHash] =
                   [evidenceHash |-> f.evidenceHash, runIdHash |-> f.runIdHash,
                    agentId |-> f.agentId, score |-> f.score, level |-> f.level,
                    isDrill |-> f.isDrill, timestamp |-> now]
             /\ receipts'[f.evidenceHash].timestamp # 0
      ]_vars

\* an entry anchored in an earlier block is still returned after its agent has
\* lost its authorisation
C11_Witness ==
    \E h \in Hash :
       /\ getReceipt(h).timestamp # 0
       /\ getReceipt(h).timestamp < now
       /\ getReceipt(h).agentId = Deployer
       /\ last.op = "setAuthorizedAgent" /\ last.err = "ok"
       /\ ~authorizedAgents[Deployer]

C13_PolicyHoldsProposal ==
    (last.op = "enforcePolicy" /\ last.err = "ok") =>
       LET p == policies[last.args.market] IN
       /\ last.args.newLtv \in {p.maxLtv, p.minLtv}
       /\ last.args.newCap = p.maxCap
       /\ p.isFrozen = last.args.freeze

\* sender's enforcePolicy(market, h, 0, 0, FALSE) succeeds and leaves the market
\* not frozen
UnfreezeBy(sender, market) ==
    /\ \E h \in GuardHashes : enforcePolicy(sender, market, h, 0, 0, FALSE)
    /\ last'.err = "ok"
    /\ ~policies'[market].isFrozen

\* the owner appoints an executor
GrantExecutor ==
    /\ \E e \in Senders : setExecutor(guardOwner, e, TRUE)
    /\ last'.err = "ok"

\* C14: after every successful enforcePolicy the market's isFrozen equals the
\* freeze argument whatever it was before; a frozen market implies a receipt
\* that still qualifies, so from every frozen state each executor's
\* enforcePolicy with freeze = FALSE succeeds and unfreezes, and the owner can
\* always appoint an executor.
C14_FrozenIsLeavable ==
    [][ /\ (CallStep /\ last'.op = "enforcePolicy" /\ last'.err = "ok") =>
             policies'[last'.args.market].isFrozen = last'.args.freeze
        /\ \A m \in Market :
             policies[m].isFrozen =>
                /\ \E h \in GuardHashes : ReceiptQualifies(h)
                /\ \A e \in Senders :
                     (Idle /\ authorizedExecutors[e]) => ENABLED UnfreezeBy(e, m)
                /\ Idle => ENABLED GrantExecutor
      ]_vars

\* a frozen market, some blocks after it was frozen, that an executor can unfreeze
C14_Witness ==
    \E m \in Market, e \in Senders :
       /\ Idle
       /\ policies[m].isFrozen
       /\ policies[m].lastUpdate < now
       /\ authorizedExecutors[e]
       /\ ENABLED UnfreezeBy(e, m)

\* initMarket has succeeded on the market: it stores bounds of at least 1
MarketInitialised(m) == policies[m].maxLtv # 0 /\ policies[m].maxCap # 0

\* C15: a market that has been initialised keeps its maxLtv and maxCap, and its
\* isFrozen / lastUpdate change only in a successful enforcePolicy on it.
C15_InitOnce ==
    [][ \A m \in Market :
          MarketInitialised(m) =>
             /\ policies'[m].maxLtv = policies[m].maxLtv
             /\ policies'[m].maxCap = policies[m].maxCap
             /\ policies'[m] # policies[m] =>
                  (last'.op = "enforcePolicy" /\ last'.err = "ok" /\ last'.args.market = m)
      ]_vars

\* C16: a successful enforcePolicy lowers the market's LTV by at most 10% and
\* its cap by at most 50%.
C16_ChangeSizeLimited ==
    (last.op = "enforcePolicy" /\ last.err = "ok") =>
       LET p == policies[last.args.market] IN
       /\ 10 * last.args.newLtv >= 9 * p.maxLtv
       /\ 2 * last.args.newCap >= p.maxCap

\* C17: every successful anchor names an agentId that is in the authorised-agent
\* list at the time of the call.
C17_AgentIdAuthorised ==
    [][ (CallStep /\ last'.op \in AnchorOps /\ last'.err = "ok") =>
          authorizedAgents[last'.args.fields.agentId]
      ]_vars

\* the fields of OracleSignals that are not optional
RequiredFields ==
    {"asset", "oraclePrice", "dexPrice", "divergencePct", "stalenessSeconds",
     "liquidityDepthUsd", "fundingRatePct", "blockNumber", "feedAddress",
     "sourceLabel", "timestamp"}
\* the fields the merge fills from the demo values
BackfilledFields ==
    {"oraclePrice", "dexPrice", "stalenessSeconds", "liquidityDepthUsd",
     "fundingRatePct", "blockNumber", "feedAddress", "sourceLabel"}
NoneGave == \A i \in 1..Len(called) : ~called[i].gave

\* C18: the signal set getSignals returns has every required field set to a
\* number or a string; it is the synthetic set when no provider gave data, and
\* every field the provider left unset holds the synthetic value.
C18_EveryFieldSet ==
    pc = "done" =>
       LET demo == demoSignals(asset, drillMode, clock) IN
       /\ \A f \in RequiredFields : returned[f].t \in {"number", "string"}
       /\ NoneGave => returned = demo
       /\ ~NoneGave =>
            \A f \in BackfilledFields : partial[f] = undefined => returned[f] = demo[f]

ProviderOrder == <<"fromCREWorkflow", "fromDataStreams", "fromDataFeeds">>
LabelOf(provider) ==
    CASE provider = "fromCREWorkflow" -> CRE_LABEL
      [] provider = "fromDataStreams" -> STREAMS_LABEL
      [] provider = "fromDataFeeds" -> FEEDS_LABEL

\* C19: the providers are consulted in the order CRE workflow, Data Streams,
\* Data Feeds; each only after all before it resolved to nothing, none after
\* one resolved to data; the result is built only then, and carries the source
\* label of the provider that gave data (the demo label when none did).
C19_PriorityShortCircuit ==
    /\ Len(called) <= 3
    /\ \A i \in 1..Len(called) :
          /\ called[i].provider = ProviderOrder[i]
          /\ i < Len(called) => ~called[i].gave
    /\ pc \in {"demoSignals", "done"} =>
          \/ Len(called) > 0 /\ called[Len(called)].gave /\ partial # null
          \/ Len(called) = 3 /\ NoneGave /\ partial = null
    /\ pc = "done" =>
          returned.sourceLabel =
             IF NoneGave THEN Str(DEMO_LABEL)
             ELSE Str(LabelOf(called[Len(called)].provider))

\* Data Streams gave a partial set after the CRE workflow gave nothing; Data
\* Feeds was not consulted and the block number is the demo value
C19_Witness ==
    /\ pc = "done"
    /\ Len(called) = 2
    /\ called[2].gave
    /\ returned.sourceLabel = Str(STREAMS_LABEL)
    /\ returned.blockNumber = demoSignals(asset, drillMode, clock).blockNumber

\* C20: whenever the returned oraclePrice and dexPrice are numbers and
\* oraclePrice is not 0, the returned divergencePct is
\* |oraclePrice - dexPrice| / oraclePrice * 100 to four decimals.
C20_DivergenceRecomputed ==
    (/\ pc = "done"
     /\ returned.oraclePrice.t = "number" /\ returned.dexPrice.t = "number"
     /\ returned.oraclePrice.v # 0)
    => /\ returned.divergencePct.t = "number"
       /\ Abs(returned.divergencePct.v
              - PercentDiff(returned.oraclePrice, returned.dexPrice).v) <= 1

\* the price node i contributed: what it read, or the fallback when it failed
Contribution(i) ==
    IF nodes.reads[i].ok THEN nodes.reads[i].answer ELSE FallbackPrice(nodes.asset)
Successes == {i \in 1..Len(nodes.reads) : nodes.reads[i].ok}

\* C21: the consensus price is element floor(N/2) of the ascending sort of all
\* N contributions, the fallbacks of the failed nodes included: at most
\* floor(N/2) contributions lie strictly below it and more than floor(N/2) lie
\* at or below it, and it is the result of one of the nodes.
C21_ConsensusIsMiddleOfAll ==
    oracleResult # null =>
        LET N == Len(nodes.reads)
            below == {i \in 1..N : Contribution(i) < oracleResult.price}
            upto == {i \in 1..N : Contribution(i) <= oracleResult.price}
        IN /\ N >= 1
           /\ Cardinality(below) <= N \div 2
           /\ Cardinality(upto) > N \div 2
           /\ \E i \in 1..N : /\ oracleResult.price = Contribution(i)
                              /\ oracleResult.ok = nodes.reads[i].ok
\* five nodes, two failed, three distinct prices read: the consensus is the
\* fallback, not the middle one of the three prices read
C21_Witness ==
    /\ oracleResult # null
    /\ Len(nodes.reads) = 5
    /\ Cardinality(Successes) = 3
    /\ Cardinality({nodes.reads[i].answer : i \in Successes}) = 3
    /\ ~oracleResult.ok
    /\ \E i \in Successes :
          /\ Cardinality({j \in Successes : nodes.reads[j].answer < nodes.reads[i].answer}) = 1
          /\ oracleResult.price # nodes.reads[i].answer

\* the largest element of a set of naturals, 0 for the empty set
Largest(S) == IF S = {} THEN 0 ELSE CHOOSE x \in S : \A y \in S : y <= x
\* the specified tables: <<threshold, points>>
DivergenceTable == {<<150000, 40>>, <<100000, 35>>, <<50000, 25>>, <<20000, 15>>, <<10000, 8>>}
StalenessTable == {<<3600, 30>>, <<1800, 22>>, <<600, 15>>, <<90, 7>>}
LiquidityTable == {<<100000, 20>>, <<500000, 14>>, <<1000000, 8>>, <<5000000, 3>>}
FundingTable == {<<5000, 10>>, <<2000, 6>>, <<1000, 3>>}
\* the points of the first row that matches; the points fall with the rows
PointsD == Largest({row[2] : row \in {r \in DivergenceTable : Gt(signals.divergencePct, r[1])}})
PointsS == Largest({row[2] : row \in {r \in StalenessTable : signals.stalenessSeconds > r[1]}})
PointsL == Largest({row[2] : row \in {r \in LiquidityTable : signals.liquidityUsd < r[1]}})
PointsF == Largest({row[2] : row \in {r \in FundingTable : Abs(signals.fundingRate) > r[1]}})
LevelFor(score) == Cardinality({t \in {15, 35, 55, 75} : score >= t})

\* C22: the score is min(100, D + S + L + F) with the components read off the
\* specified tables from the four signals alone, and the level follows the
\* score; the score is in 0..100 and the level in 0..4.
C22_ScoreFromTables ==
    risk # null =>
        /\ risk.score = Min(100, PointsD + PointsS + PointsL + PointsF)
        /\ risk.level = LevelFor(risk.score)
        /\ risk.score \in 0..100
        /\ risk.level \in 0..4
\* every component at its maximum
C22_Witness ==
    /\ risk # null
    /\ risk.score = 100
    /\ risk.level = 4
    /\ PointsD = 40 /\ PointsS = 30 /\ PointsL = 20 /\ PointsF = 10

\* the specified chain of classes, first match first
ChainClass(d, s, l) ==
    LET chain == <<[holds |-> Gt(d, 100000), class |-> "ORACLE_DIVERGENCE_CRITICAL"],
                   [holds |-> Gt(d, 30000), class |-> "ORACLE_DIVERGENCE_ELEVATED"],
                   [holds |-> s > 3600, class |-> "STALE_FEED_CRITICAL"],
                   [holds |-> s > 600, class |-> "STALE_FEED"],
                   [holds |-> l < 500000, class |-> "THIN_LIQUIDITY_CRITICAL"],
                   [holds |-> l < 2000000, class |-> "THIN_LIQUIDITY"],
                   [holds |-> TRUE, class |-> "NOMINAL"]>>
    IN chain[CHOOSE i \in 1..7 : chain[i].holds /\ \A j \in 1..(i - 1) : ~chain[j].holds].class

\* C23: the class reported is the first match of the chain, in the gateway's
\* scorer and in the workflow's.
C23_ClassChainEverywhere ==
    /\ risk # null =>
          risk.vulnerabilityClass =
             ChainClass(signals.divergencePct, signals.stalenessSeconds, signals.liquidityUsd)
    /\ creRisk # null =>
          creRisk.result.vulnerabilityClass =
             ChainClass(creRisk.signals.divergencePct, creRisk.signals.stalenessSeconds,
                        creRisk.signals.liquidityUsd)

\* the five actions, in the specified order, each with its guard
ActionCatalogue(level) ==
    <<[type |-> "MONITOR_CLOSELY", severity |-> "low", holds |-> level >= 1],
      [type |-> "REDUCE_LTV", severity |-> "medium", holds |-> Gt(signals.divergencePct, 20000)],
      [type |-> "CAP_SUPPLY", severity |-> "medium", holds |-> signals.liquidityUsd < 5000000],
      [type |-> "PAUSE_BORROWS", severity |-> "high", holds |-> level >= 3],
      [type |-> "FREEZE_MARKET", severity |-> "critical", holds |-> level >= 4]>>
\* min(10, floor(divergence * 2))
SuggestedCut ==
    IF signals.divergencePct.t = "Infinity" THEN 10
    ELSE IF (2 * signals.divergencePct.v) \div 10000 > 10 THEN 10
    ELSE (2 * signals.divergencePct.v) \div 10000

\* C24: the actions are the entries of the catalogue whose guards hold, in the
\* catalogue's order and with its severities, and REDUCE_LTV suggests
\* min(10, floor(divergence * 2)) percent.
C24_ActionsInOrder ==
    risk # null =>
        LET due == SelectSeq(ActionCatalogue(risk.level), LAMBDA c : c.holds)
        IN /\ Len(risk.actions) = Len(due)
           /\ \A i \in 1..Len(due) :
                 /\ risk.actions[i].type = due[i].type
                 /\ risk.actions[i].severity = due[i].severity
                 /\ due[i].type = "REDUCE_LTV" =>
                       /\ risk.actions[i].ltvAdjustmentPct = -SuggestedCut
                       /\ risk.actions[i].description =
                             "Reduce LTV by " \o ToString(SuggestedCut)
                             \o "% for affected markets"
\* all five actions, with a cut below the cap of 10
C24_Witness ==
    /\ risk # null
    /\ Len(risk.actions) = 5
    /\ risk.actions[2].ltvAdjustmentPct = -5

\* x <= y for divergences that may be Infinity
DivLeq(x, y) ==
    \/ x.t = "number" /\ y.t = "number" /\ x.v <= y.v
    \/ x.t \in {"number", "Infinity"} /\ y.t = "Infinity"
ScoreWith(field, value) == computeRiskScore([signals EXCEPT ![field] = value]).score

\* C25: with the other fields fixed, the score does not fall when the
\* divergence rises, when the staleness rises, or when the liquidity falls.
C25_ScoreMonotone ==
    risk # null =>
        /\ \A d \in DivergenceSamples :
              DivLeq(signals.divergencePct, d) => ScoreWith("divergencePct", d) >= risk.score
        /\ \A s \in StalenessSamples :
              s >= signals.stalenessSeconds => ScoreWith("stalenessSeconds", s) >= risk.score
        /\ \A l \in LiquiditySamples :
              l <= signals.liquidityUsd => ScoreWith("liquidityUsd", l) >= risk.score
\* each of the three changes raises the score of the signal set scored
C25_Witness ==
    /\ risk # null
    /\ \E d \in DivergenceSamples :
          DivLeq(signals.divergencePct, d) /\ ScoreWith("divergencePct", d) > risk.score
    /\ \E s \in StalenessSamples :
          s >= signals.stalenessSeconds /\ ScoreWith("stalenessSeconds", s) > risk.score
    /\ \E l \in LiquiditySamples :
          l <= signals.liquidityUsd /\ ScoreWith("liquidityUsd", l) > risk.score

\* the scenario: oracle 2780, DEX 2502, staleness 650 s, liquidity 480,000,
\* a funding rate that contributes nothing, the divergence as computed
Scenario2780 ==
    /\ risk # null
    /\ signals.oraclePrice = 278000
    /\ signals.dexPrice = 250200
    /\ signals.divergencePct = divergencePctOf(278000, 250200)
    /\ signals.stalenessSeconds = 650
    /\ signals.liquidityUsd = 480000
    /\ Abs(signals.fundingRate) <= 1000

\* C26: in the scenario the divergence is exactly 10.0 %, which is not above
\* 10: the components are 25, 15 and 14, the score is 54, the level 2 (MEDIUM)
\* and the class ORACLE_DIVERGENCE_ELEVATED.
C26_ScenarioAtBoundary ==
    Scenario2780 =>
        /\ signals.divergencePct = Num(100000)
        /\ divergenceScore(signals.divergencePct) = 25
        /\ stalenessScore(signals.stalenessSeconds) = 15
        /\ liquidityScore(signals.liquidityUsd) = 14
        /\ risk.score = 54
        /\ risk.level = 2
        /\ risk.levelLabel = "MEDIUM"
        /\ risk.vulnerabilityClass = "ORACLE_DIVERGENCE_ELEVATED"
C26_Witness == Scenario2780
\* C26 as stated: components 35, 15, 14, score 64, level 3 (HIGH), class
\* ORACLE_DIVERGENCE_CRITICAL.
C26_ScenarioAsStated ==
    Scenario2780 =>
        /\ divergenceScore(signals.divergencePct) = 35
        /\ stalenessScore(signals.stalenessSeconds) = 15
        /\ liquidityScore(signals.liquidityUsd) = 14
        /\ risk.score = 64
        /\ risk.level = 3
        /\ risk.levelLabel = "HIGH"
        /\ risk.vulnerabilityClass = "ORACLE_DIVERGENCE_CRITICAL"

\* the values with the same content as x: at every depth the same pairs, in
\* any insertion order
RECURSIVE Reorderings(_)
Reorderings(x) ==
    IF x.t # "object" THEN {x}
    ELSE LET n == Len(x.v)
             variants == UNION {{[k |-> x.v[i].k, v |-> w] : w \in Reorderings(x.v[i].v)} :
                                  i \in 1..n}
         IN {Obj(q) : q \in {q \in [1..n -> variants] :
                               \E pi \in Permutations(1..n) :
                                  \A i \in 1..n : /\ q[i].k = x.v[pi[i]].k
                                                  /\ q[i].v \in Reorderings(x.v[pi[i]].v)}}
\* x without the keys whose value is absent, at every depth
RECURSIVE WithoutAbsent(_)
WithoutAbsent(x) ==
    IF x.t # "object" THEN x
    ELSE LET present == SelectSeq(x.v, LAMBDA p : p.v.t # "undefined")
         IN Obj([i \in DOMAIN present |->
                   [k |-> present[i].k, v |-> WithoutAbsent(present[i].v)]])
\* dropping a key whose value is null changes the text, at every depth
RECURSIVE NullsKept(_)
NullsKept(x) ==
    x.t = "object" =>
        \A i \in DOMAIN x.v :
            /\ x.v[i].v.t = "null" => canonicalize(RestOf(x, {x.v[i].k})) # canonicalize(x)
            /\ NullsKept(x.v[i].v)
\* hashWithPayload has returned, or thrown
Canonicalised == payload.t # "undefined" /\ canonical.t \in {"string", "error"} /\ risk = null

\* C27: the output of canonicalize is the same for every insertion order of
\* the keys at every depth and for the value without its absent keys, and it
\* changes when a key whose value is null is dropped.
C27_ContentOnly ==
    Canonicalised =>
        /\ \A q \in Reorderings(payload) : canonicalize(q) = canonical
        /\ canonicalize(WithoutAbsent(payload)) = canonical
        /\ canonical.t = "string" => NullsKept(payload)
\* keys inserted in descending order at both depths, one absent, one null
C27_Witness ==
    /\ Canonicalised
    /\ payload = Obj(<<[k |-> "result",
                        v |-> Obj(<<[k |-> "score", v |-> Num(64)],
                                    [k |-> "level", v |-> null]>>)],
                       [k |-> "asset", v |-> undefined]>>)
    /\ canonical = Str("{\"result\":{\"level\":null,\"score\":64}}")

\* the value holds a number that is not finite
RECURSIVE HasNonFinite(_)
HasNonFinite(x) ==
    \/ x.t \in {"NaN", "Infinity", "-Infinity"}
    \/ x.t = "array" /\ \E i \in DOMAIN x.v : HasNonFinite(x.v[i])
    \/ x.t = "object" /\ \E i \in DOMAIN x.v : HasNonFinite(x.v[i].v)

\* C28: no hash is taken of a payload that holds a number that is not finite.
C28_NoHashOverNonFinite == evidence.t = "hash" => ~HasNonFinite(payload)

\* C29: a receipt sent to the verification endpoint as it was issued is
\* reported valid.
C29_IssuedReceiptVerifies ==
    (verdict # null /\ verdict.unmodified) => (verdict.status = 200 /\ verdict.valid)

\* C30: at most one key is ever generated for the keystore location, and
\* every call of loadOrGenerateKey returns that key.
C30_OneKeyPerLocation == Cardinality(generated) <= 1 /\ Cardinality(loaded) <= 1

\* the number of nodes is even
EvenRun == oracleResult # null /\ Len(nodes.reads) % 2 = 0
\* how many contributions lie below the price, and at or below it
Below(price) == Cardinality({i \in 1..Len(nodes.reads) : Contribution(i) < price})
UpTo(price) == Cardinality({i \in 1..Len(nodes.reads) : Contribution(i) <= price})

\* C35 (as amended): when the number N of results is even, the consensus
\* reducer returns the upper of the two middle elements of the ascending sort,
\* the one at place N/2 + 1 of N: at least N/2 + 1 contributions lie at or below
\* it and at most N/2 strictly below it; for N = 2, the larger price.
C35_EvenTakesUpperMiddle ==
    EvenRun =>
        LET half == Len(nodes.reads) \div 2
        IN /\ UpTo(oracleResult.price) >= half + 1
           /\ Below(oracleResult.price) <= half
           /\ Len(nodes.reads) = 2 =>
                \A i \in 1..2 : Contribution(i) <= oracleResult.price
\* two nodes with distinct prices: the consensus is the larger one
C35_Witness ==
    /\ EvenRun
    /\ Len(nodes.reads) = 2
    /\ Contribution(1) # Contribution(2)
    /\ \E i \in 1..2 : Contribution(i) < oracleResult.price

\* C35 (as stated): when the number of results is even, the consensus reducer
\* returns the lower of the two middle elements, the one at place N/2 of N: at
\* most N/2 - 1 contributions lie strictly below it; for N = 2, the smaller
\* price.
C35_EvenTakesLowerMiddle ==
    EvenRun =>
        LET half == Len(nodes.reads) \div 2
        IN /\ UpTo(oracleResult.price) >= half
           /\ Below(oracleResult.price) <= half - 1
           /\ Len(nodes.reads) = 2 =>
                \A i \in 1..2 : oracleResult.price <= Contribution(i)

\* the step is a call of enforcePolicy
EnforceCall == CallStep /\ last'.op = "enforcePolicy"
\* the ledger holds an entry for h with a score of at least 50
Qualifies(h) == receipts[h].timestamp # 0 /\ receipts[h].score >= 50

\* C37: a ledger entry is neither consumed by enforcePolicy nor bound to a
\* market: whatever calls went before, an executor's enforcePolicy with an
\* anchored hash of score >= 50 succeeds on any market and with any freeze
\* value when the proposal is within that market's bounds, and it leaves the
\* ledger as it was, the entry still qualifying.
C37_EntryNotConsumed ==
    [][ (/\ EnforceCall
         /\ authorizedExecutors[last'.sender]
         /\ Qualifies(last'.args.evidenceHash)
         /\ last'.args.newLtv <= policies[last'.args.market].maxLtv
         /\ last'.args.newCap <= policies[last'.args.market].maxCap) =>
          /\ last'.err = "ok"
          /\ receipts' = receipts
          /\ receipts'[last'.args.evidenceHash].timestamp # 0
          /\ receipts'[last'.args.evidenceHash].score >= 50
      ]_vars
\* the one entry of the ledger has authorised a freeze of one market and then
\* a call on the other market
C37_Witness ==
    /\ last.op = "enforcePolicy" /\ last.err = "ok"
    /\ \E m \in Market :
          /\ m # last.args.market
          /\ policies[m].isFrozen
          /\ policies[m].maxLtv > 0
    /\ policies[last.args.market].maxLtv > 0
    /\ last.args.newLtv = policies[last.args.market].maxLtv
    /\ Cardinality({h \in Hash : receipts[h].timestamp # 0}) = 1

\* the market's policy is the zero value but for what enforcePolicy writes:
\* initMarket was never called for it
NeverInitialised(m) ==
    policies[m].maxLtv = 0 /\ policies[m].minLtv = 0 /\ policies[m].maxCap = 0

\* C38: enforcePolicy on a market that was never initialised succeeds exactly
\* when the caller is an executor, the receipt is valid and newLtv = newCap = 0,
\* and it then writes isFrozen and lastUpdate of that market.
C38_UninitialisedCanFreeze ==
    [][ (EnforceCall /\ NeverInitialised(last'.args.market)) =>
          LET a == last'.args IN
          /\ last'.err = "ok" <=>
                /\ authorizedExecutors[last'.sender]
                /\ Qualifies(a.evidenceHash)
                /\ a.newLtv = 0
                /\ a.newCap = 0
          /\ last'.err = "ok" =>
                policies' = [policies EXCEPT ![a.market] =
                               [maxLtv |-> 0, minLtv |-> 0, maxCap |-> 0,
                                isFrozen |-> a.freeze, lastUpdate |-> now]]
          /\ last'.err # "ok" => policies' = policies
      ]_vars
\* a market no one initialised is frozen
C38_Witness ==
    /\ last.op = "enforcePolicy" /\ last.err = "ok"
    /\ NeverInitialised(last.args.market)
    /\ policies[last.args.market].isFrozen
    /\ policies[last.args.market].lastUpdate = now

\* C39: removing an agent from the authorised-agent list does not affect the
\* entries anchored while it was authorised: the call leaves the ledger
\* unchanged and verifyReceipt answers as before for every hash and threshold,
\* and in every state an entry of score >= 50 passes enforcePolicy's receipt
\* check whether or not its agent is still authorised.
C39_RemovalKeepsEntries ==
    /\ [][ (CallStep /\ last'.op = "setAuthorizedAgent" /\ last'.err = "ok") =>
             /\ receipts' = receipts
             /\ \A h \in Hash, m \in MinScoreSamples :
                   verifyReceipt(h, m)' = verifyReceipt(h, m)
         ]_vars
    /\ [](\A h \in Hash :
            (receipts[h].timestamp # 0 /\ receipts[h].score >= 50) =>
               /\ ReceiptValid(h)
               /\ \A k \in DOMAIN anchored[h][1] : getReceipt(h)[k] = anchored[h][1][k])
\* the agent of an entry has been removed from the list, and the entry qualifies
C39_Witness ==
    /\ last.op = "setAuthorizedAgent" /\ last.err = "ok"
    /\ ~last.args.status
    /\ \E h \in Hash :
          /\ receipts[h].timestamp # 0
          /\ receipts[h].agentId = last.args.agent
          /\ ~authorizedAgents[receipts[h].agentId]
          /\ verifyReceipt(h, 50)

\* the types of the actions of the result
ActionTypes == {risk.actions[i].type : i \in DOMAIN risk.actions}

\* C40: in every computeRiskScore result, a level-0 result carries no action
\* other than CAP_SUPPLY, and the result carries CAP_SUPPLY exactly when
\* liquidityUsd < 5,000,000; REDUCE_LTV appears only at level >= 1,
\* PAUSE_BORROWS only at level >= 3 and FREEZE_MARKET only at level 4, so
\* FREEZE_MARKET comes together with PAUSE_BORROWS and MONITOR_CLOSELY.
C40_ActionsFollowLevel ==
    risk # null =>
        /\ risk.level = 0 => ActionTypes \subseteq {"CAP_SUPPLY"}
        /\ "CAP_SUPPLY" \in ActionTypes <=> signals.liquidityUsd < 5000000
        /\ "REDUCE_LTV" \in ActionTypes => risk.level >= 1
        /\ "PAUSE_BORROWS" \in ActionTypes => risk.level >= 3
        /\ "FREEZE_MARKET" \in ActionTypes => risk.level = 4
        /\ "FREEZE_MARKET" \in ActionTypes =>
              {"PAUSE_BORROWS", "MONITOR_CLOSELY"} \subseteq ActionTypes
\* a SAFE result whose only action is CAP_SUPPLY, the divergence being just
\* under the 2% that brings REDUCE_LTV
C40_Witness ==
    /\ risk # null
    /\ risk.level = 0
    /\ ActionTypes = {"CAP_SUPPLY"}
    /\ signals.divergencePct = Num(20000)

\* the gateway's score on the workflow's signals, the funding rate being 0
GatewayScore(d, s, l) ==
    computeRiskScore([divergencePct |-> d, stalenessSeconds |-> s, liquidityUsd |-> l,
                      fundingRate |-> 0]).score

\* C36: all scoring implementations give the same score for the same signals:
\* for every divergencePct, staleness and liquidity (funding rate 0), the DON
\* workflow's riskScore and the cre-workflow's computeRisk score both equal the
\* gateway's computeRiskScore score.
C36_ScorersAgree ==
    /\ donRisk # null =>
          donRisk.riskScore = GatewayScore(donRisk.divergencePct, donRisk.stalenessSeconds,
                                           donRisk.liquidityUsd)
    /\ (creRisk # null /\ creRisk.signals.fundingRate = 0) =>
          creRisk.result.score = GatewayScore(creRisk.signals.divergencePct,
                                              creRisk.signals.stalenessSeconds,
                                              creRisk.signals.liquidityUsd)


\* ------------------------------------------------------------------ C32
\* the signal sets one field or several away from the signals of the run
NarratorVariants(sig) ==
    {[sig EXCEPT !.stalenessSeconds = s, !.liquidityUsd = l, !.fundingRate = f] :
        s \in {sig.stalenessSeconds, 3600, 3601}, l \in LiquiditySamples, f \in {0, 1000, 5001}}
SameValue(a, b) == a.t = b.t /\ (a.t = "number" => a.v = b.v)

\* C32: receipt construction completes whatever the narrator does, and when
\* the narrator does not answer the analysis text is determined by level,
\* divergencePct and stalenessSeconds (gateway without an API key, and the
\* workflow), or by score, levelLabel and vulnerabilityClass (gateway whose
\* call fails): signal sets that agree on these give the same text
C32_FallbackFromRiskAndSignals ==
    /\ risk # null =>
          /\ evidence.t = "hash"
          /\ Get(payload, "aiAnalysis").t = "string"
    /\ (risk # null /\ ~(narrator.apiKey /\ narrator.reply.t = "string")) =>
          \A sig2 \in NarratorVariants(signals) :
             LET r2 == computeRiskScore(sig2)
             IN (IF ~narrator.apiKey
                 THEN /\ r2.level = risk.level
                      /\ SameValue(sig2.divergencePct, signals.divergencePct)
                      /\ sig2.stalenessSeconds = signals.stalenessSeconds
                 ELSE /\ r2.score = risk.score
                      /\ r2.levelLabel = risk.levelLabel
                      /\ r2.vulnerabilityClass = risk.vulnerabilityClass)
                => callClaudeAI(sig2, r2, narrator) = Get(payload, "aiAnalysis").v
    /\ (creRisk # null /\ ~(creRisk.narrator.apiKey /\ creRisk.narrator.reply.t = "string")) =>
          \A sig2 \in NarratorVariants(creRisk.signals) :
             LET r2 == computeRisk(sig2)
             IN (/\ r2.level = creRisk.result.level
                 /\ SameValue(sig2.divergencePct, creRisk.signals.divergencePct)
                 /\ sig2.stalenessSeconds = creRisk.signals.stalenessSeconds)
                => workflowCallClaudeAI(sig2, r2, creRisk.narrator) = creRisk.aiAnalysis

\* a receipt of level 3 or more was built while the narrator did not answer
C32_Witness ==
    /\ risk # null
    /\ ~(narrator.apiKey /\ narrator.reply.t = "string")
    /\ risk.level >= 3
    /\ evidence.t = "hash"
    /\ Get(payload, "aiAnalysis").t = "string"

\* C32 as stated: when the narrator does not answer, level and divergencePct
\* alone determine the analysis text
C32_FallbackFromLevelAndDivergence ==
    /\ (risk # null /\ ~(narrator.apiKey /\ narrator.reply.t = "string")) =>
          \A sig2 \in NarratorVariants(signals) :
             LET r2 == computeRiskScore(sig2)
             IN (/\ r2.level = risk.level
                 /\ SameValue(sig2.divergencePct, signals.divergencePct))
                => callClaudeAI(sig2, r2, narrator) = Get(payload, "aiAnalysis").v
    /\ (creRisk # null /\ ~(creRisk.narrator.apiKey /\ creRisk.narrator.reply.t = "string")) =>
          \A sig2 \in NarratorVariants(creRisk.signals) :
             LET r2 == computeRisk(sig2)
             IN (/\ r2.level = creRisk.result.level
                 /\ SameValue(sig2.divergencePct, creRisk.signals.divergencePct))
                => workflowCallClaudeAI(sig2, r2, creRisk.narrator) = creRisk.aiAnalysis


\* ------------------------------------------------------------------ C31
\* the payment gate returned valid for the reference of the request replied to
GateValid ==
    /\ reply.request.paymentTx.t = "string"
    /\ reply.request.paymentTx.v # <<>>
    /\ "valid" \in DOMAIN reply.verification
    /\ reply.verification.valid

\* C31: a drill is answered with status 200, and a receipt or result is
\* built for it, only after the payment gate returned valid for the payment
\* reference of that request; without a reference, or when verification
\* returns invalid, the request ends with status 402, nothing is built and no
\* signals are acquired
C31_DrillOnlyAfterValidPayment ==
    /\ [](reply # null => (IF GateValid THEN reply.status = 200 ELSE reply.status = 402))
    /\ [][issued'.t # issued.t => (reply'.status = 200 /\ GateValid')]_vars

\* ------------------------------------------------------------------ C33
\* C33: running the rf-clean engine again on the same signals gives the same
\* evidenceHash
C33_SameSignalsSameHash ==
    [][(clean # null /\ clean' # null /\ clean'.signals = clean.signals)
         => clean'.result.evidenceHash = clean.result.evidenceHash]_vars

\* ------------------------------------------------------------------ C34
\* the string hashed for the receipt of the last run, with the signals and
\* the divergence replaced
HashedWith(sig, divergencePct) ==
    receiptJson(sig, clean.result.score, clean.result.level, divergencePct,
                clean.result.actions, clean.result.timestamp)

\* C34: the string that is hashed covers every field of the receipt: changing
\* one field, one field of the nested signals included, changes the string
C34_EveryFieldIsHashed ==
    clean # null =>
       LET sig == clean.signals
           r == clean.result
           text == HashedWith(sig, r.divergencePct)
       IN /\ r.evidenceHash = sha256(text)
          /\ HashedWith([sig EXCEPT !.oraclePrice = @ + 1], r.divergencePct) # text
          /\ HashedWith([sig EXCEPT !.dexPrice = @ + 1], r.divergencePct) # text
          /\ HashedWith([sig EXCEPT !.staleness = @ + 1], r.divergencePct) # text
          /\ HashedWith([sig EXCEPT !.liquidityUsd = @ + 1], r.divergencePct) # text
          /\ HashedWith(sig, Num(123456)) # text
          /\ receiptJson(sig, r.score + 1, r.level, r.divergencePct, r.actions, r.timestamp)
                # text
          /\ receiptJson(sig, r.score, r.level + 1, r.divergencePct, r.actions, r.timestamp)
                # text
          /\ receiptJson(sig, r.score, r.level, r.divergencePct,
                         Append(r.actions, "FREEZE_MARKET"), r.timestamp) # text
          /\ receiptJson(sig, r.score, r.level, r.divergencePct, r.actions, r.timestamp + 1)
                # text

====
